---- MODULE Spec2Model ----
(***************************************************************************)
(* Model of the sitemap pipeline of src/utils/sitemap.ts: the URL          *)
(* classifier (categorizeUrl, categorizeUrls), the batch scheduler         *)
(* (processInBatches), sitemap discovery (fetchSitemapUrls), the           *)
(* rate-limited fetch client (the axiosInstance response interceptor),     *)
(* page extraction (extractPageData) and aggregation (processAllUrls,      *)
(* ensureMinimumPageTypes, getPageStats, processSitemap), with the POST    *)
(* handler of src/app/api/urls/route.ts.                                   *)
(*                                                                         *)
(* JavaScript strings are TLA+ strings; JavaScript values that may be of   *)
(* another type are records [type |-> ..., ...].  A settled promise is a   *)
(* record [state |-> "fulfilled" | "rejected", ...].                       *)
(***************************************************************************)
EXTENDS Integers, Sequences, FiniteSets, TLC

VARIABLES
  \* URL classifier
  url,          \* the argument of categorizeUrl (a JavaScript value)
  category,     \* the promise categorizeUrl returns
  urls,         \* the argument of categorizeUrls
  buckets,      \* the promise categorizeUrls returns
  \* batch scheduler
  items,        \* processInBatches: the items argument
  handler,      \* the promise of handler(items[k]), per item index k
  i,            \* the loop variable i of processInBatches (0-based)
  results,      \* the local results array
  pcBatch,      \* position of processInBatches
  \* fetch client
  request,      \* one request through axiosInstance and its interceptor
  \* sitemap discovery
  world,        \* the remote site: documents, robots.txt, HEAD answers
  calls,        \* the invocations of fetchSitemapUrls, keyed by call path
  \* page extraction
  page,         \* one call of extractPageData
  \* aggregation
  run           \* one run of the pipeline: POST handler or processSitemap

clsVars   == <<url, category, urls, buckets>>
batchVars == <<items, handler, i, results, pcBatch>>
httpVars  == <<request>>
discVars  == <<world, calls>>
pageVars  == <<page>>
runVars   == <<run>>
vars      == <<clsVars, batchVars, httpVars, discVars, pageVars, runVars>>

-----------------------------------------------------------------------------
(* JavaScript string operations *)

startsWith(s, p) == Len(s) >= Len(p) /\ SubSeq(s, 1, Len(p)) = p

includes(s, p) ==
  \E k \in 1..(Len(s) - Len(p) + 1) : SubSeq(s, k, k + Len(p) - 1) = p

charAt(s, k) == SubSeq(s, k, k)

\* Index of the first character of s at or after position k that is one of
\* the one-character strings in cs; Len(s) + 1 when there is none.
RECURSIVE FirstOf(_, _, _)
FirstOf(s, cs, k) ==
  IF k > Len(s) THEN Len(s) + 1
  ELSE IF charAt(s, k) \in cs THEN k
  ELSE FirstOf(s, cs, k + 1)

\* patterns.some(pattern => s.startsWith(pattern))
someStartsWith(patterns, s) ==
  \E k \in 1..Len(patterns) : startsWith(s, patterns[k])

-----------------------------------------------------------------------------
(* new URL(s): the WHATWG parser restricted to the strings of the model
   (scheme https, a host, a path of unreserved characters, an optional
   query).  A string without a scheme and host does not parse: the
   constructor throws TypeError. *)

Scheme == "https://"

HostEnd(s) == FirstOf(s, {"/", "?", "#"}, Len(Scheme) + 1)

URLParses(s) == startsWith(s, Scheme) /\ HostEnd(s) > Len(Scheme) + 1

\* URL.pathname: from the end of the host up to the query or fragment; the
\* empty path of a special scheme is "/".
URLpathname(s) ==
  LET from == HostEnd(s)
      to   == FirstOf(s, {"?", "#"}, from) - 1
  IN  IF to < from THEN "/" ELSE SubSeq(s, from, to)

\* URL.origin
URLorigin(s) == SubSeq(s, 1, HostEnd(s) - 1)

-----------------------------------------------------------------------------
(* Promises *)

Pending       == [state |-> "pending"]
Fulfilled(v)  == [state |-> "fulfilled", value |-> v]
Rejected(e)   == [state |-> "rejected", error |-> e]
Idle          == [state |-> "idle"]

\* JavaScript values
JsString(s)   == [type |-> "string", str |-> s]
JsUndefined   == [type |-> "undefined"]
JsNumber(n)   == [type |-> "number", num |-> n]

\* !v for the values of the model
falsy(v) ==
  \/ v.type = "undefined"
  \/ v.type = "number" /\ v.num = 0
  \/ v.type = "string" /\ v.str = ""

-----------------------------------------------------------------------------
(* URL classifier: categorizeUrl, src/utils/sitemap.ts:387-473 *)

Categories == {"product", "category", "blog", "static", "others"}

categoryPatterns ==
  <<"/kategori/", "/category/", "/blog/kategori/", "/blog/category/",
    "/cat/", "/collections/">>

productPatterns ==
  <<"/urun/", "/product/", "/p/", "/shop/", "/item/", "/product-detail/">>

blogPatterns == <<"/blog/icerik/", "/icerik/", "/blog/">>

staticPatterns ==
  <<"/sayfa/", "/page/", "/about", "/contact",
    "/faq", "/terms", "/privacy", "/hakkimizda",
    "/iletisim", "/yardim", "/help", "/support",
    "/gizlilik", "/sss", "/sikca-sorulan-sorular",
    "/shipping", "/returns", "/iade", "/kargom-nerede",
    "/indirimli-urunler">>

\* pathname.split('?')[0]
cleanPath(pathname) == SubSeq(pathname, 1, FirstOf(pathname, {"?"}, 1) - 1)

\* categorizePath with the blog check moved in front of the category check.
categorizePath_blogFirst(pathname) ==
  IF pathname = "/" THEN "static"
  ELSE IF startsWith(pathname, "/urun/") THEN "product"
  ELSE IF someStartsWith(blogPatterns, pathname) THEN "blog"
  ELSE IF someStartsWith(categoryPatterns, pathname)
    THEN "category"
  ELSE IF someStartsWith(productPatterns, pathname)
    THEN "product"
  ELSE IF someStartsWith(staticPatterns, cleanPath(pathname))
    THEN "static"
  ELSE "others"

\* The body of categorizeUrl after the URL has been parsed.
categorizePath(pathname) ==
  LET productCategoryPatterns == <<"/kategori/", "/category/", "/cat/", "/collections/">>
  IN
  IF pathname = "/" THEN "static"
  ELSE IF startsWith(pathname, "/urun/") THEN "product"
  ELSE IF startsWith(pathname, "/blog/icerik/") THEN "blog"
  ELSE IF someStartsWith(categoryPatterns, pathname)
    THEN "category"
  ELSE IF \E k \in 1..Len(productCategoryPatterns) :
            /\ startsWith(pathname, productCategoryPatterns[k])
            /\ ~includes(pathname, "/blog/")
    THEN "category"
  ELSE IF someStartsWith(productPatterns, pathname)
    THEN "product"
  ELSE IF /\ someStartsWith(blogPatterns, pathname)
          /\ ~includes(pathname, "/blog/kategori/")
          /\ ~includes(pathname, "/blog/category/")
    THEN "blog"
  ELSE IF someStartsWith(staticPatterns, cleanPath(pathname))
    THEN "static"
  ELSE "others"

\* categorizeUrl(url): the promise it returns.
categorizeUrl(u) ==
  IF falsy(u) \/ u.type # "string" THEN Fulfilled("static")
  ELSE IF ~URLParses(u.str) THEN Rejected("TypeError: Invalid URL")
  ELSE Fulfilled(categorizePath(URLpathname(u.str)))

\* categorizeUrls(urls), src/utils/sitemap.ts:267-294: the loop over the
\* list, with its try/catch that files a throwing URL under others.
emptyBuckets == [c \in Categories |-> <<>>]

RECURSIVE categorizeUrlsFrom(_, _, _)
categorizeUrlsFrom(list, k, result) ==
  IF k > Len(list) THEN result
  ELSE LET p   == categorizeUrl(list[k])
           key == IF p.state = "fulfilled" THEN p.value ELSE "others"
       IN  categorizeUrlsFrom(list, k + 1,
             [result EXCEPT ![key] = Append(@, list[k])])

categorizeUrls(list) == Fulfilled(categorizeUrlsFrom(list, 1, emptyBuckets))

-----------------------------------------------------------------------------
(* Batch scheduler: processInBatches, src/utils/sitemap.ts:1151-1171 *)

\* CRAWL_CONFIG.batchProcessing.maxConcurrent
maxConcurrent == 10

\* Indices (1-based) of arr.slice(from, to): from and to are 0-based, to is
\* exclusive and clamped to the length.
sliceIndices(arr, from, to) ==
  {k \in 1..Len(arr) : from < k /\ k <= to}

\* The batch with the end argument of slice left out.
batchIndices_noEnd(arr, from) == sliceIndices(arr, from, Len(arr))

\* items.slice(i, i + batchSize)
batchIndices(arr, from) == sliceIndices(arr, from, from + maxConcurrent)

\* p.catch(error => ({ error })) without the handler: p itself.
catchWrap_none(p) == p

\* p.catch(error => ({ error })): a rejection becomes a fulfilment with
\* the record {error}.
catchWrap(p) ==
  IF p.state = "rejected" THEN Fulfilled([error |-> p.error]) ELSE p

\* results.unshift(...batchResults)
push_front(arr, more) == more \o arr

\* results.push(...batchResults)
push(arr, more) == arr \o more

\* The sequence of f[k] for the indices k of a slice ks (a range of
\* consecutive indices) in increasing order.
inOrder(f, ks) ==
  IF ks = {} THEN <<>>
  ELSE LET first == CHOOSE m \in ks : \A n \in ks : m <= n
       IN  [j \in 1..Cardinality(ks) |-> f[first + j - 1]]

\* for-loop head: the next batch is cut and the handler is called on each
\* of its items (batch.map(handler)); with no items left the results are
\* returned.
StartBatch ==
  /\ pcBatch = "loop"
  /\ i < Len(items)
  /\ handler' = [k \in DOMAIN handler |->
                   IF k \in batchIndices(items, i) THEN Pending ELSE handler[k]]
  /\ pcBatch' = "await"
  /\ UNCHANGED <<items, i, results, clsVars, httpVars, discVars, pageVars, runVars>>

ReturnResults ==
  /\ pcBatch = "loop"
  /\ i >= Len(items)
  /\ pcBatch' = "returned"
  /\ UNCHANGED <<items, handler, i, results, clsVars, httpVars, discVars, pageVars, runVars>>

\* The promise of one handler invocation settles, either way.
HandlerSettles(k) ==
  /\ handler[k].state = "pending"
  /\ \/ handler' = [handler EXCEPT ![k] = Fulfilled([url |-> items[k], data |-> "data"])]
     \/ handler' = [handler EXCEPT ![k] = Rejected("Error: " \o items[k])]
  /\ UNCHANGED <<items, i, results, pcBatch, clsVars, httpVars, discVars, pageVars, runVars>>

\* await Promise.all(batch.map(handler).map(p => p.catch(...))) completes:
\* Promise.all rejects as soon as one of its promises is rejected and is
\* fulfilled when all are fulfilled, with the values in the order of the
\* batch.  The results are pushed and the loop pauses when items remain.
BatchSettles ==
  /\ pcBatch = "await"
  /\ LET batch   == batchIndices(items, i)
         wrapped == [k \in batch |-> catchWrap(handler[k])]
     IN  \/ /\ \E k \in batch : wrapped[k].state = "rejected"
            /\ pcBatch' = "rejected"
            /\ UNCHANGED <<i, results>>
         \/ /\ \A k \in batch : wrapped[k].state = "fulfilled"
            /\ results' = push(results, inOrder([k \in batch |-> wrapped[k].value], batch))
            /\ IF i + maxConcurrent < Len(items)
                 THEN pcBatch' = "delay" /\ UNCHANGED i
                 ELSE pcBatch' = "loop" /\ i' = i + maxConcurrent
  /\ UNCHANGED <<items, handler, clsVars, httpVars, discVars, pageVars, runVars>>

\* await delay(delayBetweenBatches) completes; the loop increments i.
DelayElapses ==
  /\ pcBatch = "delay"
  /\ pcBatch' = "loop"
  /\ i' = i + maxConcurrent
  /\ UNCHANGED <<items, handler, results, clsVars, httpVars, discVars, pageVars, runVars>>

-----------------------------------------------------------------------------
(* Fetch client: axiosInstance and its response interceptor,
   src/utils/sitemap.ts:11-31 *)

Digits == "0123456789"

isDigit(c) == \E d \in 1..10 : charAt(Digits, d) = c

digitValue(c) == (CHOOSE d \in 1..10 : charAt(Digits, d) = c) - 1

Whitespace == {" ", "\t"}

\* Index of the first character of s at or after k that is no whitespace.
RECURSIVE skipWhitespace(_, _)
skipWhitespace(s, k) ==
  IF k <= Len(s) /\ charAt(s, k) \in Whitespace THEN skipWhitespace(s, k + 1) ELSE k

\* The digits of s from position k on: their value after acc, and how many.
RECURSIVE readDigits(_, _, _, _)
readDigits(s, k, acc, n) ==
  IF k <= Len(s) /\ isDigit(charAt(s, k))
    THEN readDigits(s, k + 1, acc * 10 + digitValue(charAt(s, k)), n + 1)
    ELSE [num |-> acc, count |-> n]

NaN == [nan |-> TRUE, num |-> 0]
Num(n) == [nan |-> FALSE, num |-> n]

\* parseInt(v) for a string, a number or undefined: leading whitespace, an
\* optional sign, then decimal digits; NaN when no digit follows, as in
\* String(undefined).
parseInt(v) ==
  IF v.type = "number" THEN Num(v.num)
  ELSE IF v.type = "undefined" THEN NaN
  ELSE LET s      == v.str
           start  == skipWhitespace(s, 1)
           signed == start <= Len(s) /\ charAt(s, start) \in {"+", "-"}
           from   == IF signed THEN start + 1 ELSE start
           ds     == readDigits(s, from, 0, 0)
       IN  IF ds.count = 0 THEN NaN
           ELSE IF signed /\ charAt(s, start) = "-" THEN Num(0 - ds.num)
           ELSE Num(ds.num)

\* a || b
orElse(a, b) == IF falsy(a) THEN b ELSE a

\* (parseInt(retryAfter) || 30) * 1000 with
\* retryAfter = error.response.headers['retry-after'] || 30
delayMs(headers) ==
  LET retryAfter == orElse(headers["retry-after"], JsNumber(30))
      parsed     == parseInt(retryAfter)
  IN  (IF parsed.nan \/ parsed.num = 0 THEN 30 ELSE parsed.num) * 1000

\* A retry on every status from 429 up.
isRateLimited_from429(error) ==
  error.response.type # "undefined" /\ error.response.status >= 429

\* error.response?.status === 429
isRateLimited(error) ==
  error.response.type # "undefined" /\ error.response.status = 429

\* axios' default validateStatus
validateStatus(status) == status >= 200 /\ status < 300

Response(status, headers) == [type |-> "object", status |-> status, headers |-> headers]

\* The server answers the request in flight, or the request fails without
\* an answer (network error, timeout).  A status outside 2xx is an error
\* for axios.  The interceptor passes a response through, starts the wait
\* on an error with status 429 and rejects with every other error.
ResponseArrives(response) ==
  /\ request.pc = "inflight"
  /\ IF response.type # "undefined" /\ validateStatus(response.status)
       THEN request' = [request EXCEPT !.pc = "fulfilled",
                                       !.last = response,
                                       !.outcome = Fulfilled(response)]
       ELSE LET error == [config |-> request.config, response |-> response]
            IN  IF isRateLimited(error)
                  THEN request' = [request EXCEPT !.pc = "waiting",
                                                  !.last = response,
                                                  !.timer = delayMs(response.headers),
                                                  !.waited = 0]
                  ELSE request' = [request EXCEPT !.pc = "rejected",
                                                  !.last = response,
                                                  !.outcome = Rejected(error)]
  /\ UNCHANGED <<clsVars, batchVars, discVars, pageVars, runVars>>

\* One second of the wait passes.
SecondPasses ==
  /\ request.pc = "waiting"
  /\ request.waited < request.timer
  /\ request' = [request EXCEPT !.waited = @ + 1000]
  /\ UNCHANGED <<clsVars, batchVars, discVars, pageVars, runVars>>

\* The timer of the wait has run out (a timer set to zero or less fires at
\* once): axiosInstance.request(error.config) issues the request again,
\* through the same interceptor.
RetryAfterWait ==
  /\ request.pc = "waiting"
  /\ request.waited >= request.timer
  /\ request' = [request EXCEPT !.pc = "inflight",
                                 !.issued = Append(@, request.config)]
  /\ UNCHANGED <<clsVars, batchVars, discVars, pageVars, runVars>>

-----------------------------------------------------------------------------
(* Sitemap discovery: tryAlternativeSitemapUrls and fetchSitemapUrls,
   src/utils/sitemap.ts:176-264.

   The remote site is the record world: docs maps a location to what a GET
   of it yields (kind "error": the request fails; "malformed": the body is
   no XML; "sitemapindex" and "urlset": the parsed document with its list
   of entries, an entry being its loc[0] string or undefined when the
   entry has no loc; "other": XML with neither element), robots is the
   list of lines of robots.txt or undefined when it cannot be fetched,
   heads is the set of locations that answer a HEAD request with 200. *)

UpperCase == "ABCDEFGHIJKLMNOPQRSTUVWXYZ"
LowerCase == "abcdefghijklmnopqrstuvwxyz"

UpperChars == {charAt(UpperCase, k) : k \in 1..26}

lowerChar(c) ==
  IF c \in UpperChars
    THEN charAt(LowerCase, CHOOSE k \in 1..26 : charAt(UpperCase, k) = c)
    ELSE c

RECURSIVE lowerFrom(_, _)
lowerFrom(s, k) ==
  IF k > Len(s) THEN "" ELSE lowerChar(charAt(s, k)) \o lowerFrom(s, k + 1)

\* String.prototype.toLowerCase: a string without upper-case letters is
\* its own lower case.
toLowerCase(s) ==
  IF \E k \in 1..Len(s) : charAt(s, k) \in UpperChars THEN lowerFrom(s, 1) ELSE s

\* axiosInstance.get(location) with the XML parse of the body
GET(location) ==
  IF location \in DOMAIN world.docs THEN world.docs[location] ELSE [kind |-> "error"]

\* baseUrl.replace(/\/$/, '')
stripTrailingSlash(s) ==
  IF Len(s) > 0 /\ charAt(s, Len(s)) = "/" THEN SubSeq(s, 1, Len(s) - 1) ELSE s

\* robotsResp.data.match(/^Sitemap: (.+)$/m): the rest of the first line
\* that starts with the directive and has something after it, as a
\* one-element list; the empty list when there is no match.
RECURSIVE sitemapMatch(_)
sitemapMatch(lines) ==
  LET SitemapDirective == "Sitemap: "
  IN
  IF lines = <<>> THEN <<>>
  ELSE IF startsWith(Head(lines), SitemapDirective) /\ Len(Head(lines)) > Len(SitemapDirective)
    THEN <<SubSeq(Head(lines), Len(SitemapDirective) + 1, Len(Head(lines)))>>
  ELSE sitemapMatch(Tail(lines))

\* The candidate locations in probing order.  The robots.txt request is
\* made only when baseUrl parses (new URL(baseUrl).origin), and its
\* failure is swallowed.
variations(baseUrl) ==
  LET normalizedUrl == stripTrailingSlash(baseUrl)
      common == <<baseUrl,
                  normalizedUrl \o "/sitemap.xml",
                  normalizedUrl \o "/sitemap_index.xml",
                  normalizedUrl \o "/sitemap/sitemap.xml",
                  normalizedUrl \o "/wp-sitemap.xml",
                  normalizedUrl \o "/page-sitemap.xml">>
      declared == IF URLParses(baseUrl) /\ world.robots.type = "lines"
                    THEN sitemapMatch(world.robots.lines)
                    ELSE <<>>
  IN  declared \o common

\* The first element of a list of locations that answers HEAD with 200, as
\* a one-element list; the empty list (null) when none does.
RECURSIVE firstFound(_)
firstFound(candidates) ==
  IF candidates = <<>> THEN <<>>
  ELSE IF Head(candidates) \in world.heads THEN <<Head(candidates)>>
  ELSE firstFound(Tail(candidates))

\* The HEAD requests the loop over the candidates issues, from candidate k
\* on: one per candidate, up to and including the first that answers 200.
RECURSIVE probesFrom(_, _)
probesFrom(candidates, k) ==
  IF k > Len(candidates) THEN <<>>
  ELSE IF candidates[k] \in world.heads THEN <<candidates[k]>>
  ELSE <<candidates[k]>> \o probesFrom(candidates, k + 1)

\* tryAlternativeSitemapUrls with the location robots.txt declares put behind
\* the common candidates.
tryAlternativeSitemapUrls_declaredLast(baseUrl) ==
  LET candidates == variations(baseUrl)
      common     == SubSeq(candidates, Len(candidates) - 5, Len(candidates))
      declared   == SubSeq(candidates, 1, Len(candidates) - 6)
  IN  firstFound(common \o declared)

tryAlternativeSitemapUrls(baseUrl) == firstFound(variations(baseUrl))

\* The depth test with the limit one level later.
tooDeep_late(depth) == depth > 6

\* if (depth > 5) return [];
tooDeep(depth) == depth > 5

\* The catch block with the error thrown on.
caught_rethrow(call, error) ==
  [call EXCEPT !.pc = "done", !.failed = TRUE, !.result = Rejected(error)]

\* catch (error) { return []; }
caught(call, error) ==
  [call EXCEPT !.pc = "done", !.failed = TRUE, !.result = Fulfilled(<<>>)]

\* The filter of the return statement: the strings new URL accepts.
filterValid(list) == SelectSeq(list, URLParses)

\* Array.prototype.flat
RECURSIVE flat(_)
flat(lists) == IF lists = <<>> THEN <<>> ELSE Head(lists) \o flat(Tail(lists))

\* A call fetchSitemapUrls(sitemapUrl, depth) up to its first await.
newCall(sitemapUrl, depth) ==
  LET call == [sitemapUrl |-> sitemapUrl, depth |-> depth, pc |-> "start",
               fetched |-> FALSE, failed |-> FALSE, probes |-> <<>>,
               sitemapUrls |-> <<>>,
               i |-> 0, urls |-> <<>>, result |-> Pending]
  IN  IF tooDeep(depth)
        THEN [call EXCEPT !.pc = "done", !.result = Fulfilled(<<>>)]
      ELSE IF ~includes(toLowerCase(sitemapUrl), "sitemap")
        THEN [call EXCEPT !.pc = "resolving"]
      ELSE [call EXCEPT !.pc = "fetching", !.fetched = TRUE]

\* batch.map(url => fetchSitemapUrls(url, depth + 1)) for the batch that
\* starts at index from of the child locations of call c.
spawn(c, call, from) ==
  [d \in {Append(c, k) : k \in batchIndices(call.sitemapUrls, from)} |->
     newCall(call.sitemapUrls[d[Len(d)]], call.depth + 1)]

\* entries.map(e => e.loc[0]) throws when an entry has no loc.
locsThrow(entries) == \E k \in 1..Len(entries) : entries[k].type = "undefined"
locs(entries) == [k \in 1..Len(entries) |-> entries[k].str]

\* await tryAlternativeSitemapUrls(sitemapUrl) completes (its requests are
\* answered as world says); the GET of the location found, or of the
\* original one, is issued.
Resolved(c) ==
  /\ calls[c].pc = "resolving"
  /\ LET foundUrl == tryAlternativeSitemapUrls(calls[c].sitemapUrl)
     IN  calls' = [calls EXCEPT ![c].pc = "fetching",
                                ![c].fetched = TRUE,
                                ![c].probes = probesFrom(variations(calls[c].sitemapUrl), 1),
                                ![c].sitemapUrl = IF foundUrl # <<>> THEN foundUrl[1] ELSE @]
  /\ UNCHANGED <<world, clsVars, batchVars, httpVars, pageVars, runVars>>

\* The GET completes and the body is parsed.  A sitemap index starts the
\* loop over its child locations with the first batch of recursive calls;
\* a URL set returns its filtered locations; any failure is caught.
afterDocument(c) ==
  LET call == calls[c]
      doc  == GET(call.sitemapUrl)
  IN  IF doc.kind \in {"error", "malformed"}
        THEN [calls EXCEPT ![c] = caught(call, doc.kind)]
      ELSE IF doc.kind = "sitemapindex" /\ doc.entries # <<>>
        THEN IF locsThrow(doc.entries)
               THEN [calls EXCEPT ![c] = caught(call, "TypeError")]
               ELSE LET started == [call EXCEPT !.sitemapUrls = locs(doc.entries),
                                                !.pc = "awaitBatch"]
                    IN  spawn(c, started, 0) @@ [calls EXCEPT ![c] = started]
      ELSE IF doc.kind = "urlset" /\ doc.entries # <<>>
        THEN IF locsThrow(doc.entries)
               THEN [calls EXCEPT ![c] = caught(call, "TypeError")]
               ELSE [calls EXCEPT
                      ![c].pc = "done",
                      ![c].urls = locs(doc.entries),
                      ![c].result = Fulfilled(filterValid(locs(doc.entries)))]
      ELSE [calls EXCEPT ![c].pc = "done", ![c].result = Fulfilled(<<>>)]

DocumentArrives(c) ==
  /\ calls[c].pc = "fetching"
  /\ calls' = afterDocument(c)
  /\ UNCHANGED <<world, clsVars, batchVars, httpVars, pageVars, runVars>>

\* The promises of the recursive calls of the batch call c is awaiting.
batchPromises(c) ==
  [k \in batchIndices(calls[c].sitemapUrls, calls[c].i) |-> calls[Append(c, k)].result]

\* Promise.all rejects as soon as one promise is rejected and is
\* fulfilled when all are fulfilled.
allRejects(promises) == \E k \in DOMAIN promises : promises[k].state = "rejected"
allFulfils(promises) == \A k \in DOMAIN promises : promises[k].state = "fulfilled"

\* await Promise.all(batch.map(...)) completes: the results of the batch
\* are appended in batch order; the loop pauses when child locations
\* remain and the function returns the filtered list otherwise.  A
\* rejection is caught.
afterBatch(c) ==
  LET call     == calls[c]
      promises == batchPromises(c)
  IN  IF allRejects(promises)
        THEN [calls EXCEPT ![c] = caught(call, "child")]
        ELSE LET batchResults == inOrder([k \in DOMAIN promises |-> promises[k].value],
                                         DOMAIN promises)
                 collected    == call.urls \o flat(batchResults)
             IN  IF call.i + maxConcurrent < Len(call.sitemapUrls)
                   THEN [calls EXCEPT ![c].urls = collected, ![c].pc = "delay"]
                   ELSE [calls EXCEPT ![c].urls = collected,
                                      ![c].pc = "done",
                                      ![c].result = Fulfilled(filterValid(collected))]

ChildrenSettle(c) ==
  /\ calls[c].pc = "awaitBatch"
  /\ allRejects(batchPromises(c)) \/ allFulfils(batchPromises(c))
  /\ calls' = afterBatch(c)
  /\ UNCHANGED <<world, clsVars, batchVars, httpVars, pageVars, runVars>>

\* await delay(delayBetweenBatches) completes: the next batch of recursive
\* calls is made.
afterPause(c) ==
  LET next == [calls[c] EXCEPT !.i = @ + maxConcurrent, !.pc = "awaitBatch"]
  IN  spawn(c, next, next.i) @@ [calls EXCEPT ![c] = next]

PauseElapses(c) ==
  /\ calls[c].pc = "delay"
  /\ calls' = afterPause(c)
  /\ UNCHANGED <<world, clsVars, batchVars, httpVars, pageVars, runVars>>

-----------------------------------------------------------------------------
(* Page extraction: extractPageData, src/utils/sitemap.ts:475-1081.

   A fetched page is a document [title, sel]: title is document.title and
   sel maps a selector string to the list of elements that
   querySelectorAll yields for it, in document order.  An element is a
   record [attrs, textContent]; an attribute the element does not carry
   reads as "" (every use in this code treats null and "" alike: || and
   filter(Boolean)).  A record of page data is a function from field names
   to values; a field that was never assigned is not in its domain.  The
   clock fields (timestamp, date) and the product and category detail
   fields (price, stockStatus, features, category, breadcrumb) are not
   part of the record here. *)

\* a || b on strings
or(a, b) == IF a # "" THEN a ELSE b

\* Index of the last character of s at or before k that is no whitespace.
RECURSIVE skipWhitespaceBack(_, _)
skipWhitespaceBack(s, k) ==
  IF k >= 1 /\ charAt(s, k) \in Whitespace THEN skipWhitespaceBack(s, k - 1) ELSE k

\* s.trim()
trim(s) ==
  LET a == skipWhitespace(s, 1)
      b == skipWhitespaceBack(s, Len(s))
  IN  IF a > b THEN "" ELSE SubSeq(s, a, b)

\* s.substring(0, n)
substring(s, n) == IF Len(s) <= n THEN s ELSE SubSeq(s, 1, n)

\* Index of the last "/" of s at or before k; 0 when there is none.
RECURSIVE lastSlash(_, _)
lastSlash(s, k) ==
  IF k < 1 THEN 0 ELSE IF charAt(s, k) = "/" THEN k ELSE lastSlash(s, k - 1)

\* s.split('/').pop()
lastPart(s) == SubSeq(s, lastSlash(s, Len(s)) + 1, Len(s))

\* s.replace(/-/g, ' ') from position k on
RECURSIVE hyphensToSpaces(_, _)
hyphensToSpaces(s, k) ==
  IF k > Len(s) THEN ""
  ELSE (IF charAt(s, k) = "-" THEN " " ELSE charAt(s, k)) \o hyphensToSpaces(s, k + 1)

\* list.filter(Boolean) on a list of strings, from position k on
RECURSIVE filterBoolean(_, _)
filterBoolean(list, k) ==
  IF k > Len(list) THEN <<>>
  ELSE (IF list[k] # "" THEN <<list[k]>> ELSE <<>>) \o filterBoolean(list, k + 1)

\* list.slice(0, n)
slice(list, n) == IF Len(list) <= n THEN list ELSE SubSeq(list, 1, n)

Element(attrs, textContent) == [attrs |-> attrs, textContent |-> textContent]

querySelectorAll(document, selector) ==
  IF selector \in DOMAIN document.sel THEN document.sel[selector] ELSE <<>>

\* document.querySelector(selector) finds an element
matches(document, selector) == querySelectorAll(document, selector) # <<>>

\* document.querySelector(selector), where it finds one
querySelector(document, selector) == querySelectorAll(document, selector)[1]

getAttribute(element, name) ==
  IF name \in DOMAIN element.attrs THEN element.attrs[name] ELSE ""

\* document.querySelector(selector)?.getAttribute(name), undefined read as ""
attributeOf(document, selector, name) ==
  IF matches(document, selector)
    THEN getAttribute(querySelector(document, selector), name)
    ELSE ""

\* Index of the first selector of the list at or after k that finds an
\* element; 0 when none does.
RECURSIVE firstMatch(_, _, _)
firstMatch(document, selectors, k) ==
  IF k > Len(selectors) THEN 0
  ELSE IF matches(document, selectors[k]) THEN k
  ELSE firstMatch(document, selectors, k + 1)

\* record[field] = value
set(record, field, value) == (field :> value) @@ record

has(record, field) == field \in DOMAIN record

\* axios.get / axios.head on the default axios instance: the interceptor
\* of axiosInstance is not registered on it, so every answer outside 2xx,
\* 429 included, and every request without answer rejects.
axios(config, response) ==
  IF ~URLParses(config.url)
    THEN Rejected([name |-> "TypeError", message |-> "Invalid URL",
                   config |-> config, response |-> JsUndefined])
  ELSE IF response.type = "undefined"
    THEN Rejected([name |-> "AxiosError", message |-> "Network Error",
                   config |-> config, response |-> response])
  ELSE IF ~validateStatus(response.status)
    THEN Rejected([name |-> "AxiosError",
                   message |-> "Request failed with status code "
                                 \o ToString(response.status),
                   config |-> config, response |-> response])
  ELSE Fulfilled(response)

\* String(error)
String(error) == error.name \o ": " \o error.message

\* The record of the catch block, lines 1069-1080.
fallbackRecord(u, error) ==
  [url    |-> u,
   title  |-> or(hyphensToSpaces(lastPart(u), 1), u),
   error  |-> String(error),
   type   |-> "others",
   stockStatus |-> "Available",
   images |-> <<>>]

\* The first five img[src] sources, lines 509-513.
imageUrls(document) ==
  LET elements == querySelectorAll(document, "img[src]")
  IN  slice(filterBoolean([k \in 1..Len(elements) |->
                             getAttribute(elements[k], "src")], 1), 5)

\* The record with the common fields, lines 493-518.
commonFields(u, document) ==
  LET ogImage == attributeOf(document, "meta[property=\"og:image\"]", "content")
  IN  [url         |-> u,
       title       |-> or(document.title, or(lastPart(u), "Untitled")),
       description |->
         or(attributeOf(document, "meta[name=\"description\"]", "content"),
            or(attributeOf(document, "meta[property=\"og:description\"]", "content"),
               "No description available")),
       images      |-> IF ogImage # "" THEN <<ogImage>> ELSE imageUrls(document)]

\* patterns.some(pattern => s.includes(pattern))
someIncludes(patterns, s) ==
  \E k \in 1..Len(patterns) : includes(s, patterns[k])

LowerChars == {charAt(LowerCase, k) : k \in 1..26}

upperChar(c) ==
  IF c \in LowerChars
    THEN charAt(UpperCase, CHOOSE k \in 1..26 : charAt(LowerCase, k) = c)
    ELSE c

\* \w
isWordChar(c) == c \in UpperChars \/ c \in LowerChars \/ isDigit(c) \/ c = "_"

\* s.replace(/\b\w/g, c => c.toUpperCase()) from position k on
RECURSIVE titleCaseFrom(_, _)
titleCaseFrom(s, k) ==
  IF k > Len(s) THEN ""
  ELSE (IF k = 1 \/ ~isWordChar(charAt(s, k - 1))
          THEN upperChar(charAt(s, k))
          ELSE charAt(s, k)) \o titleCaseFrom(s, k + 1)

\* slug.replace(/-/g, ' ').replace(/\b\w/g, c => c.toUpperCase())
titleCase(slug) == titleCaseFrom(hyphensToSpaces(slug, 1), 1)

\* The capture of s.match(/\/blog\/kategori\/([^\/]+)/), "" without match.
blogKategoriMatch(s) ==
  LET prefix == "/blog/kategori/"
      at     == {k \in 1..(Len(s) - Len(prefix) + 1) :
                   /\ SubSeq(s, k, k + Len(prefix) - 1) = prefix
                   /\ k + Len(prefix) <= Len(s)
                   /\ charAt(s, k + Len(prefix)) # "/"}
  IN  IF at = {} THEN ""
      ELSE LET k    == CHOOSE a \in at : \A b \in at : a <= b
               from == k + Len(prefix)
           IN  SubSeq(s, from, FirstOf(s, {"/"}, from) - 1)

\* The condition of the blog branch, lines 524-530.
isBlogPage(u, document) ==
  LET blogUrlMarkers == <<"/blog/", "/icerik/", "/kategori/", "/news/", "/article/", "/post/">>
  IN
  \/ someIncludes(blogUrlMarkers, toLowerCase(u))
  \/ matches(document, "article, .post, .blog-post")

\* The loop of lines 601-610 from selector k on: the first description
\* text longer than 10 characters, "" when no selector yields one.
RECURSIVE describedBy(_, _)
describedBy(document, k) ==
  LET descriptionSelectors ==
      <<"meta[property=\"og:description\"]", "meta[name=\"description\"]",
        ".blog-summary", ".blog-excerpt", ".post-summary", ".article-summary",
        ".entry-summary", ".post-content p:first-child",
        ".blog-content p:first-child", ".icerik-ozet", ".blog-icerik-ozet",
        ".yazi-ozeti">>
  IN
  IF k > Len(descriptionSelectors) THEN ""
  ELSE IF ~matches(document, descriptionSelectors[k]) THEN describedBy(document, k + 1)
  ELSE LET element == querySelector(document, descriptionSelectors[k])
           descriptionText ==
             or(getAttribute(element, "content"), trim(element.textContent))
       IN  IF descriptionText # "" /\ Len(descriptionText) > 10
             THEN descriptionText
             ELSE describedBy(document, k + 1)

\* The loop of lines 622-636 from selector k on: the first two paragraphs
\* of the first selector that yields more than 10 characters.
RECURSIVE fromParagraphs(_, _)
fromParagraphs(document, k) ==
  LET paragraphSelectors ==
      <<"article p", ".blog-content p", ".post-content p", ".entry-content p", ".icerik p">>
  IN
  IF k > Len(paragraphSelectors) THEN ""
  ELSE LET paragraphs == querySelectorAll(document, paragraphSelectors[k])
           first  == IF Len(paragraphs) >= 1
                       THEN trim(paragraphs[1].textContent) \o " " ELSE ""
           second == IF Len(paragraphs) >= 2
                       THEN trim(paragraphs[2].textContent) \o " " ELSE ""
           description == first \o second
       IN  IF Len(paragraphs) > 0 /\ Len(description) > 10
             THEN substring(description, 160) \o "..."
             ELSE fromParagraphs(document, k + 1)

\* The description of a blog page, lines 585-642, given the record so far.
blogDescription(pageData, document) ==
  LET found  == describedBy(document, 1)
      first  == IF found # "" THEN found ELSE pageData.description
      second == IF first = "" THEN fromParagraphs(document, 1) ELSE first
  IN  IF second = "" /\ pageData.title # ""
        THEN pageData.title \o ": Blog post on this topic."
        ELSE second

\* The loop of lines 663-672 from selector k on.
RECURSIVE categoriesFrom(_, _)
categoriesFrom(document, k) ==
  LET categorySelectors ==
      <<".post-categories a", ".blog-categories a", ".categories a",
        "meta[property=\"article:section\"]", ".entry-categories a",
        ".post-meta .category", ".blog-detail-categories a", ".post-category",
        ".article-categories", ".kategori a", ".blog-kategori a",
        ".icerik-kategori", ".breadcrumb li a">>
  IN
  IF k > Len(categorySelectors) THEN <<>>
  ELSE LET elements   == querySelectorAll(document, categorySelectors[k])
           categories ==
             filterBoolean([e \in 1..Len(elements) |->
                              or(getAttribute(elements[e], "content"),
                                 trim(elements[e].textContent))], 1)
       IN  IF categories # <<>> THEN categories ELSE categoriesFrom(document, k + 1)

\* pageData.blogCategories, lines 661-687.
blogCategories(u, document) ==
  LET categories == categoriesFrom(document, 1)
      slug       == IF includes(toLowerCase(u), "toptanturkiye.com")
                      THEN blogKategoriMatch(u) ELSE ""
      all        == IF slug # "" THEN Append(categories, titleCase(slug))
                    ELSE categories
  IN  IF Len(all) > 0 THEN all ELSE <<"Uncategorized">>

\* The source of one image of the featured-image loop, lines 736-750;
\* "" for an image that is skipped.
featuredSource(img) ==
  LET src    == or(getAttribute(img, "src"),
                   or(getAttribute(img, "data-src"), getAttribute(img, "data-original")))
      width  == parseInt(JsString(or(getAttribute(img, "width"), "0")))
      height == parseInt(JsString(or(getAttribute(img, "height"), "0")))
  IN  IF /\ ~width.nan /\ width.num > 0
         /\ ~height.nan /\ height.num > 0
         /\ (width.num < 100 \/ height.num < 100)
        THEN ""
        ELSE src

\* The loop of lines 731-759 from selector k on; <<>> when no selector
\* yields an image.
RECURSIVE featuredImages(_, _)
featuredImages(document, k) ==
  LET blogImageSelectors ==
      <<".post-featured-image img", ".blog-image img", ".entry-image img",
        "article img", ".post img", ".blog-featured-image img",
        ".icerik-resim img", ".blog-icerik-image img", ".blog-cover img">>
  IN
  IF k > Len(blogImageSelectors) THEN <<>>
  ELSE LET elements == querySelectorAll(document, blogImageSelectors[k])
           images   == filterBoolean([e \in 1..Len(elements) |->
                                        featuredSource(elements[e])], 1)
       IN  IF images # <<>> THEN images ELSE featuredImages(document, k + 1)

\* Lines 763-777: the images of the content, without icons and the like.
RECURSIVE contentImagesFrom(_, _)
contentImagesFrom(elements, k) ==
  LET uiImageWords == <<"icon", "logo", "avatar", "spinner", "loading">>
  IN
  IF k > Len(elements) THEN <<>>
  ELSE LET src == or(getAttribute(elements[k], "src"),
                     getAttribute(elements[k], "data-src"))
       IN  (IF src # "" /\ ~someIncludes(uiImageWords, src) THEN <<src>> ELSE <<>>)
             \o contentImagesFrom(elements, k + 1)

\* Lines 782-792: one image location made absolute.
absoluteImage(u, img) ==
  IF img = "" THEN ""
  ELSE IF startsWith(img, "//") THEN "https:" \o img
  ELSE IF ~startsWith(img, "http") /\ ~startsWith(img, "data:")
    THEN IF startsWith(img, "/") THEN URLorigin(u) \o img
         ELSE URLorigin(u) \o "/" \o img
  ELSE img

\* pageData.images of a blog page, lines 715-807, given the images so far.
blogImages(u, given, document) ==
  IF Len(given) > 0 THEN given
  ELSE LET featured == featuredImages(document, 1)
           contentImages ==
             querySelectorAll(document,
               "article img, .post-content img, .blog-content img, .icerik img")
           collected == IF featured # <<>> THEN featured
                        ELSE IF Len(contentImages) > 0
                          THEN contentImagesFrom(contentImages, 1)
                        ELSE given
           fixed == filterBoolean([k \in 1..Len(collected) |->
                                     absoluteImage(u, collected[k])], 1)
           ogImage == attributeOf(document, "meta[property=\"og:image\"]", "content")
       IN  IF Len(fixed) > 0 THEN fixed
           ELSE IF ogImage # "" THEN <<ogImage>>
           ELSE <<"https://via.placeholder.com/800x400?text=Blog+Post">>

\* The blog branch, lines 532-808.
blogPage(pageData, document) ==
  set(set(set(set(pageData, "type", "blog"),
        "description", blogDescription(pageData, document)),
        "blogCategories", blogCategories(pageData.url, document)),
        "images", blogImages(pageData.url, pageData.images, document))

\* The condition of the product branch, lines 811-813.
isProductPage(u, document) ==
  LET productUrlMarkers == <<"/product/", "/urun/">>
  IN
  \/ someIncludes(productUrlMarkers, toLowerCase(u))
  \/ matches(document, ".product-detail, .product, [itemtype*=\"Product\"]")

\* The loop of lines 967-979 from selector k on.
RECURSIVE productImagesFrom(_, _)
productImagesFrom(document, k) ==
  LET imageSelectors ==
      <<".product-images img[src]", ".product-gallery img[src]",
        ".product-image img[src]", ".product-detail-image img[src]",
        ".product-photos img[src]", ".swiper-slide img[src]", "#productImage",
        "[itemprop=\"image\"]">>
  IN
  IF k > Len(imageSelectors) THEN <<>>
  ELSE LET elements == querySelectorAll(document, imageSelectors[k])
           sources  == filterBoolean([e \in 1..Len(elements) |->
                                        getAttribute(elements[e], "src")], 1)
       IN  IF sources # <<>> THEN sources ELSE productImagesFrom(document, k + 1)

\* The product branch, lines 815-981.
productPage(pageData, document) ==
  set(set(pageData, "type", "product"),
      "images", IF Len(pageData.images) > 0 THEN pageData.images
                ELSE productImagesFrom(document, 1))

\* The condition of the category branch, lines 984-991.
isCategoryPage(u, document) ==
  LET categoryUrlMarkers ==
      <<"/category/", "/kategori/", "/blog/kategori/", "/blog/category/", "/cat/",
        "/collections/", "/product-category/">>
  IN
  \/ someIncludes(categoryUrlMarkers, toLowerCase(u))
  \/ matches(document, ".category-description, .category-header, .products-category")

\* The category branch, lines 993-1032.
categoryPage(pageData, document) == set(pageData, "type", "category")

\* The static branch, lines 1036-1059.
staticPage(pageData, document) ==
  LET contentSelectors == <<".page-content", ".entry-content", "main", ".content">>
  IN
  LET typed  == set(pageData, "type", "static")
      titled == IF matches(document, "h1") /\ querySelector(document, "h1").textContent # ""
                  THEN set(typed, "title", trim(querySelector(document, "h1").textContent))
                  ELSE typed
      k      == firstMatch(document, contentSelectors, 1)
  IN  IF k = 0 THEN titled
      ELSE set(titled, "description",
               substring(trim(querySelector(document, contentSelectors[k]).textContent), 200)
                 \o "...")

\* The try block after the fetch, lines 485-1067.
extract(u, document) ==
  LET pageData == commonFields(u, document)
  IN  IF isBlogPage(u, document) THEN blogPage(pageData, document)
      ELSE IF isProductPage(u, document) THEN productPage(pageData, document)
      ELSE IF isCategoryPage(u, document) THEN categoryPage(pageData, document)
      ELSE staticPage(pageData, document)

\* extractPageData without its catch block: a failed fetch rejects.
extractPageData_rethrow(u, response) ==
  LET fetched == axios([method |-> "get", url |-> u], response)
  IN  IF fetched.state = "rejected"
        THEN Rejected(fetched.error)
        ELSE Fulfilled(extract(u, response.data))

\* extractPageData(url) when the request is answered by response (or not
\* answered): the promise it returns.
extractPageData(u, response) ==
  LET fetched == axios([method |-> "get", url |-> u], response)
  IN  IF fetched.state = "rejected"
        THEN Fulfilled(fallbackRecord(u, fetched.error))
        ELSE Fulfilled(extract(u, response.data))

\* The request of extractPageData settles and the call returns.  A URL
\* that does not parse is never requested, so nothing answers it.
PageArrives(response) ==
  /\ page.pc = "fetching"
  /\ ~URLParses(page.url) => response = JsUndefined
  /\ page' = [page EXCEPT !.pc = "done",
                          !.last = response,
                          !.outcome = extractPageData(page.url, response)]
  /\ UNCHANGED <<clsVars, batchVars, httpVars, discVars, runVars>>

-----------------------------------------------------------------------------
(* Aggregation: processAllUrls with its crawls, the coverage helpers
   (addCommonStaticPages, ensureMinimumPageTypes), the statistics, and the
   two entry points of the pipeline: processSitemap,
   src/utils/sitemap.ts:1737-1782, and the POST handler,
   src/app/api/urls/route.ts:76-157.

   A record map (Record<string, PageData>) is the list of its entries
   [key, value] in insertion order, each key once.  The remote site of a
   run is run.site: D is the list fetchSitemapUrls yields for the entry
   URL, anchors maps a crawled location to the href values of its links
   (a location outside its domain fails to load), heads is the set of
   locations that answer HEAD with 200.  The answer to a page fetch is
   chosen when the page is fetched.  Letters outside ASCII in the titles
   of the synthetic Turkish records are written as their base letters. *)

\* s.replace(/\/+$/, '')
RECURSIVE stripTrailingSlashes(_)
stripTrailingSlashes(s) ==
  IF Len(s) > 0 /\ charAt(s, Len(s)) = "/"
    THEN stripTrailingSlashes(SubSeq(s, 1, Len(s) - 1))
    ELSE s

\* The keys of a record map, in insertion order.
keys(map) == [k \in 1..Len(map) |-> map[k].key]

\* Object.values(map)
values(map) == [k \in 1..Len(map) |-> map[k].value]

hasKey(map, key) == \E k \in 1..Len(map) : map[k].key = key

\* map[key], for a key of the map
get(map, key) == map[CHOOSE k \in 1..Len(map) : map[k].key = key].value

\* map[key] = value with every guard left out of the way: a new key is
\* added at the end, the value of an existing key is replaced.
put(map, key, value) ==
  IF hasKey(map, key)
    THEN [k \in 1..Len(map) |->
            IF map[k].key = key THEN [key |-> key, value |-> value] ELSE map[k]]
    ELSE Append(map, [key |-> key, value |-> value])

\* The number of elements of a list that have the type t.
RECURSIVE countType(_, _, _)
countType(list, t, k) ==
  IF k > Len(list) THEN 0
  ELSE (IF has(list[k], "type") /\ list[k].type = t THEN 1 ELSE 0)
         + countType(list, t, k + 1)

\* list.filter(x => !seen.has(x)), and the list without repetitions, from
\* position k on.
RECURSIVE unseen(_, _, _)
unseen(list, seen, k) ==
  IF k > Len(list) THEN <<>>
  ELSE IF list[k] \in seen THEN unseen(list, seen, k + 1)
  ELSE <<list[k]>> \o unseen(list, seen \cup {list[k]}, k + 1)

\* new URL(href, base).href for the hrefs of the model: an absolute URL, a
\* path from the root, or a path relative to the directory of base.
resolve(href, base) ==
  IF URLParses(href) THEN (IF HostEnd(href) > Len(href) THEN href \o "/" ELSE href)
  ELSE IF startsWith(href, "/") THEN URLorigin(base) \o href
  ELSE URLorigin(base)
         \o SubSeq(URLpathname(base), 1, lastSlash(URLpathname(base), Len(URLpathname(base))))
         \o href

\* The hrefs of a[href] of the page at location; <<>> with loaded FALSE
\* when the page does not load.
anchorsOf(location) ==
  IF location \in DOMAIN run.site.anchors
    THEN [loaded |-> TRUE, hrefs |-> filterBoolean(run.site.anchors[location], 1)]
    ELSE [loaded |-> FALSE, hrefs |-> <<>>]

\* addCommonStaticPages(baseUrl, urls), lines 1267-1291: the candidates
\* that answer HEAD with status 200 and are not in the list are appended.
RECURSIVE additionalUrls(_, _, _)
additionalUrls(baseUrl, existingUrls, k) ==
  LET staticCandidatePatterns ==
      <<"about", "contact", "faq", "terms", "privacy", "hakkimizda", "iletisim",
        "sss", "gizlilik-politikasi", "satis-sozlesmesi", "kargo-takibi",
        "siparis-sorgula", "sayfa", "pages", "page">>
  IN
  IF k > Len(staticCandidatePatterns) THEN <<>>
  ELSE LET candidate == baseUrl \o "/" \o staticCandidatePatterns[k]
       IN  (IF candidate \in run.site.heads /\ candidate \notin existingUrls
              THEN <<candidate>> ELSE <<>>)
             \o additionalUrls(baseUrl, existingUrls, k + 1)

addCommonStaticPages(baseUrl, list) ==
  list \o additionalUrls(baseUrl, {list[k] : k \in 1..Len(list)}, 1)

\* The classification loop of processAllUrls, lines 1556-1567: the
\* buckets, or the error categorizeUrl rejects with.
RECURSIVE bucketsFrom(_, _, _)
bucketsFrom(list, k, result) ==
  IF k > Len(list) THEN Fulfilled(result)
  ELSE LET p == categorizeUrl(JsString(list[k]))
       IN  IF p.state = "rejected" THEN p
           ELSE bucketsFrom(list, k + 1, [result EXCEPT ![p.value] = Append(@, list[k])])

\* extractProductUrlsFromCategories, lines 1435-1485, from category k on.
RECURSIVE productUrlsFrom(_, _, _)
productUrlsFrom(categoryUrls, k, found) ==
  IF k > Len(categoryUrls) \/ k > 10 THEN found
  ELSE LET links == anchorsOf(categoryUrls[k]).hrefs
           productUrls ==
             SelectSeq([l \in 1..Len(links) |-> resolve(links[l], categoryUrls[k])],
                       LAMBDA productUrl : /\ includes(productUrl, "/urun/")
                                           /\ ~includes(productUrl, "/kategori/"))
       IN  productUrlsFrom(categoryUrls, k + 1,
             found \o unseen(productUrls, {found[f] : f \in 1..Len(found)}, 1))

extractProductUrlsFromCategories(categoryUrls) == productUrlsFrom(categoryUrls, 1, <<>>)

\* extractBlogUrlsFromSite, lines 1488-1535.
extractBlogUrlsFromSite(baseUrl) ==
  LET blogPageUrl == stripTrailingSlashes(baseUrl) \o "/blog"
      links       == anchorsOf(blogPageUrl).hrefs
      blogUrls    ==
        SelectSeq([l \in 1..Len(links) |-> resolve(links[l], blogPageUrl)],
                  LAMBDA blogUrl : /\ includes(blogUrl, "/blog/icerik/")
                                   /\ ~includes(blogUrl, "/kategori/"))
  IN  unseen(blogUrls, {}, 1)

\* CRAWL_CONFIG.urlPatterns.blog, lines 147-155
\* extractBlogPostUrls, lines 1083-1108, from category page k on.
RECURSIVE blogPostUrlsFrom(_, _)
blogPostUrlsFrom(categoryUrls, k) ==
  LET blogPostPatterns ==
      <<"/blog/", "/post/", "/article/", "/news/", "/makale/", "/yazi/",
        "/blog-detail/", "/entry/", "/gundem/", "/duyuru/", "/haber/", "/content/",
        "/blogs/", "/articles/", "/posts/", "/news-item/", "/icerik/">>
  IN
  IF k > Len(categoryUrls) THEN <<>>
  ELSE LET hrefs == anchorsOf(categoryUrls[k]).hrefs
           links == SelectSeq(hrefs,
                      LAMBDA href : someIncludes(blogPostPatterns, toLowerCase(href)))
       IN  [l \in 1..Len(links) |-> resolve(links[l], categoryUrls[k])]
             \o blogPostUrlsFrom(categoryUrls, k + 1)

extractBlogPostUrls(categoryUrls) == unseen(blogPostUrlsFrom(categoryUrls, 1), {}, 1)

\* ensureSingleUrlData that returns the record of extractPageData as it
\* is.
ensureSingleUrlData_asExtracted(u, bucket, response) ==
  extractPageData(u, response).value

\* ensureSingleUrlData(url, category), lines 1408-1431, when the page fetch
\* is answered by response: extractPageData never rejects, so the record
\* is its record with the type replaced by the bucket.
ensureSingleUrlData(u, bucket, response) ==
  set(extractPageData(u, response).value, "type", bucket)

\* The merge of lines 1619-1621 from entry k on: result[url] = data.
RECURSIVE mergeFrom(_, _, _)
mergeFrom(result, categoryData, k) ==
  IF k > Len(categoryData) THEN result
  ELSE mergeFrom(put(result, categoryData[k].url, categoryData[k].data),
                 categoryData, k + 1)

\* Object.entries(categorizedUrls): the buckets in the order of their keys
bucketOrder == <<"product", "category", "blog", "static", "others">>

\* encodeURIComponent(s) from position k on, for titles of letters, digits
\* and spaces.
RECURSIVE encodeURIComponentFrom(_, _)
encodeURIComponentFrom(s, k) ==
  IF k > Len(s) THEN ""
  ELSE (IF charAt(s, k) = " " THEN "%20" ELSE charAt(s, k))
         \o encodeURIComponentFrom(s, k + 1)

encodeURIComponent(s) == encodeURIComponentFrom(s, 1)

\* isTurkishSite, lines 1811-1817
isTurkishSite(result) ==
  LET turkishMarkers == <<"/sayfa/", "/kategori/", "/icerik/", "/hakkimizda", "/iletisim">>
  IN
  \E k \in 1..Len(result) : someIncludes(turkishMarkers, result[k].key)

\* staticPages, lines 1831-1843
staticPages(turkish) ==
  IF turkish
    THEN <<[path |-> "/sayfa/hakkimizda", title |-> "Hakkimizda",
            desc |-> "Sirketimiz hakkinda bilgi edinin."],
           [path |-> "/sayfa/iletisim", title |-> "Iletisim",
            desc |-> "Bizimle iletisime gecin."],
           [path |-> "/sayfa/gizlilik-politikasi", title |-> "Gizlilik Politikasi",
            desc |-> "Gizlilik politikamiz hakkinda bilgi."],
           [path |-> "/sayfa/satis-sozlesmesi", title |-> "Satis Sozlesmesi",
            desc |-> "Satis kosullarimiz ve sartlarimiz."],
           [path |-> "/sayfa/sikca-sorulan-sorular", title |-> "Sikca Sorulan Sorular",
            desc |-> "En cok sorulan sorular ve cevaplari."]>>
    ELSE <<[path |-> "/about-us", title |-> "About Us",
            desc |-> "Learn about our company and mission."],
           [path |-> "/contact", title |-> "Contact Us",
            desc |-> "Get in touch with our team."],
           [path |-> "/privacy-policy", title |-> "Privacy Policy",
            desc |-> "How we handle and protect your data."],
           [path |-> "/terms-of-service", title |-> "Terms of Service",
            desc |-> "Our terms and conditions."],
           [path |-> "/faq", title |-> "Frequently Asked Questions",
            desc |-> "Answers to common questions."]>>

\* blogPosts, lines 1861-1869
blogPosts(turkish) ==
  IF turkish
    THEN <<[slug |-> "yeni-urunlerimiz-hakkinda", title |-> "Yeni Urunlerimiz Hakkinda",
            desc |-> "Yeni urunlerimizi inceleyin."],
           [slug |-> "musteri-deneyimleri", title |-> "Musteri Deneyimleri",
            desc |-> "Musterilerimizin deneyimlerini okuyun."],
           [slug |-> "sektor-haberleri", title |-> "Sektor Haberleri",
            desc |-> "Sektordeki son gelismeler."]>>
    ELSE <<[slug |-> "new-product-announcement", title |-> "New Product Announcement",
            desc |-> "Check out our newest products."],
           [slug |-> "customer-testimonials", title |-> "Customer Testimonials",
            desc |-> "Read about our customers' experiences."],
           [slug |-> "industry-news", title |-> "Industry News",
            desc |-> "Latest developments in our industry."]>>

\* categories, lines 1903-1911
syntheticCategories(turkish) ==
  IF turkish
    THEN <<[slug |-> "yeni-gelenler", name |-> "Yeni Gelenler",
            desc |-> "En yeni urunlerimiz."],
           [slug |-> "en-cok-satanlar", name |-> "En Cok Satanlar",
            desc |-> "En populer urunlerimiz."],
           [slug |-> "indirimli-urunler", name |-> "Indirimli Urunler",
            desc |-> "Indirimli urunlerimiz."]>>
    ELSE <<[slug |-> "new-arrivals", name |-> "New Arrivals",
            desc |-> "Our newest products."],
           [slug |-> "best-sellers", name |-> "Best Sellers",
            desc |-> "Our most popular products."],
           [slug |-> "sale-items", name |-> "Sale Items",
            desc |-> "Products with special discounts."]>>

\* The loop of lines 1845-1856 from page k on.
RECURSIVE addStaticPages(_, _, _, _)
addStaticPages(result, normalizedBaseUrl, pages, k) ==
  IF k > Len(pages) THEN result
  ELSE LET u == normalizedBaseUrl \o pages[k].path
       IN  addStaticPages(
             put(result, u, [url |-> u, title |-> pages[k].title,
                             description |-> pages[k].desc, type |-> "static"]),
             normalizedBaseUrl, pages, k + 1)

\* The loop of lines 1871-1886 from post k on.
RECURSIVE addBlogPosts(_, _, _, _, _)
addBlogPosts(result, prefix, turkish, posts, k) ==
  IF k > Len(posts) THEN result
  ELSE LET u == prefix \o posts[k].slug
       IN  addBlogPosts(
             put(result, u,
                 [url |-> u, title |-> posts[k].title, description |-> posts[k].desc,
                  type |-> "blog",
                  blogCategories |-> IF turkish THEN <<"Genel", "Haberler">>
                                     ELSE <<"General", "News">>,
                  blogContent |-> IF turkish THEN "Bu bir ornek blog yazisidir."
                                  ELSE "This is a sample blog post.",
                  images |-> <<"https://via.placeholder.com/800x400?text="
                                 \o encodeURIComponent(posts[k].title)>>]),
             prefix, turkish, posts, k + 1)

\* The loop of lines 1913-1925 from category k on.
RECURSIVE addCategories(_, _, _, _)
addCategories(result, prefix, categories, k) ==
  IF k > Len(categories) THEN result
  ELSE LET u == prefix \o categories[k].slug
       IN  addCategories(
             put(result, u,
                 [url |-> u, title |-> categories[k].name,
                  description |-> categories[k].desc, type |-> "category",
                  category |-> categories[k].name,
                  images |-> <<"https://via.placeholder.com/800x400?text="
                                 \o encodeURIComponent(categories[k].name)>>]),
             prefix, categories, k + 1)

\* ensureMinimumPageTypes without the category pages.
ensureMinimumPageTypes_noCategories(baseUrl, processedData) ==
  LET normalizedBaseUrl == stripTrailingSlashes(baseUrl)
      turkish      == isTurkishSite(processedData)
      withStatic   == addStaticPages(processedData, normalizedBaseUrl,
                                     staticPages(turkish), 1)
      withBlog     == addBlogPosts(withStatic,
                        normalizedBaseUrl
                          \o (IF turkish THEN "/blog/icerik/" ELSE "/blog/"),
                        turkish, blogPosts(turkish), 1)
      blogIndexUrl == normalizedBaseUrl \o "/blog"
  IN  put(withBlog, blogIndexUrl,
          [url |-> blogIndexUrl, title |-> "Blog",
           description |-> IF turkish THEN "Blog yazilarimiz" ELSE "Our blog posts",
           type |-> "static"])

\* ensureMinimumPageTypes(baseUrl, processedData), lines 1806-1940.
ensureMinimumPageTypes(baseUrl, processedData) ==
  LET normalizedBaseUrl == stripTrailingSlashes(baseUrl)
      turkish      == isTurkishSite(processedData)
      withStatic   == addStaticPages(processedData, normalizedBaseUrl,
                                     staticPages(turkish), 1)
      withBlog     == addBlogPosts(withStatic,
                        normalizedBaseUrl
                          \o (IF turkish THEN "/blog/icerik/" ELSE "/blog/"),
                        turkish, blogPosts(turkish), 1)
      blogIndexUrl == normalizedBaseUrl \o "/blog"
      withIndex    == put(withBlog, blogIndexUrl,
                          [url |-> blogIndexUrl, title |-> "Blog",
                           description |-> IF turkish THEN "Blog yazilarimiz"
                                           ELSE "Our blog posts",
                           type |-> "static"])
  IN  IF countType(values(withIndex), "category", 1) < 3
        THEN addCategories(withIndex,
               normalizedBaseUrl \o (IF turkish THEN "/kategori/" ELSE "/category/"),
               syntheticCategories(turkish), 1)
        ELSE withIndex

\* The sample blog step without its condition: the sample post is always
\* added.
sampleBlog_always(siteUrl, pageData) ==
  LET blogUrl == stripTrailingSlashes(siteUrl) \o "/blog/sample-post"
  IN  put(pageData, blogUrl,
          [url |-> blogUrl, title |-> "Sample Blog Post",
           description |-> "This is a sample blog post created automatically.",
           type |-> "blog",
           blogCategories |-> <<"Sample", "Blog">>,
           blogContent |-> "This is a sample blog post content. The actual content would be fetched from the website.",
           images |-> <<"https://via.placeholder.com/800x400?text=Sample+Blog+Post">>])

\* The sample blog step of processSitemap, lines 1758-1773.
sampleBlog(siteUrl, pageData) ==
  IF countType(values(pageData), "blog", 1) > 0 THEN pageData
  ELSE LET blogUrl == stripTrailingSlashes(siteUrl) \o "/blog/sample-post"
       IN  put(pageData, blogUrl,
               [url |-> blogUrl, title |-> "Sample Blog Post",
                description |-> "This is a sample blog post created automatically.",
                type |-> "blog",
                blogCategories |-> <<"Sample", "Blog">>,
                blogContent |-> "This is a sample blog post content. The actual content would be fetched from the website.",
                images |-> <<"https://via.placeholder.com/800x400?text=Sample+Blog+Post">>])

\* data.type || fallback
typeOr(data, fallback) ==
  IF has(data, "type") /\ data.type # "" THEN data.type ELSE fallback

\* getPageStats that leaves a record of an unknown type out of the
\* per-type counts.
getPageStats_knownOnly(pageData) ==
  LET list == values(pageData)
  IN  [all      |-> Len(list),
       product  |-> countType(list, "product", 1),
       blog     |-> countType(list, "blog", 1),
       category |-> countType(list, "category", 1),
       static   |-> countType(list, "static", 1)]

\* getPageStats(pageData), lines 1710-1730: the counts all, product, blog,
\* category and static; a record of another type counts as static.
getPageStats(pageData) ==
  LET statKeys == {"product", "blog", "category", "static"}
  IN
  LET list  == values(pageData)
      typed == [k \in 1..Len(list) |->
                  [type |-> IF typeOr(list[k], "static") \in statKeys
                              THEN typeOr(list[k], "static") ELSE "static"]]
  IN  [all      |-> Len(list),
       product  |-> countType(typed, "product", 1),
       blog     |-> countType(typed, "blog", 1),
       category |-> countType(typed, "category", 1),
       static   |-> countType(typed, "static", 1)]

\* convertPageDataToArray(pageData), lines 1696-1703
convertPageDataToArray(pageData) ==
  LET list == values(pageData)
  IN  [k \in 1..Len(list) |-> set(list[k], "type", typeOr(list[k], "others"))]

\* The stats of the POST handler, route.ts lines 114-123.
postStats(pageDataArray) ==
  [total    |-> Len(pageDataArray),
   crawled  |-> Len(pageDataArray),
   failed   |-> 0,
   product  |-> countType(pageDataArray, "product", 1),
   blog     |-> countType(pageDataArray, "blog", 1),
   category |-> countType(pageDataArray, "category", 1),
   static   |-> countType(pageDataArray, "static", 1),
   others   |-> countType(pageDataArray, "others", 1)]

\* updatedCategorized, route.ts lines 128-138: the URLs of the records by
\* type.
updatedCategorized(pageDataArray) ==
  [c \in Categories |->
     LET ofType == SelectSeq(pageDataArray, LAMBDA p : typeOr(p, "others") = c)
     IN  [k \in 1..Len(ofType) |-> ofType[k].url]]

\* NextResponse.json(body, { status })
json(body, status) == [status |-> status, body |-> body]

\* The run ends with an exception: the POST handler answers it with status
\* 500 (route.ts lines 147-156), processSitemap rejects.
thrown(message) ==
  [run EXCEPT !.pc = "done",
              !.outcome = IF run.mode = "POST"
                            THEN Fulfilled(json([error |-> message], 500))
                            ELSE Rejected(message)]

\* POST, route.ts lines 78-85: the body is read and sitemapUrl is required.
ReceiveRequest ==
  /\ run.pc = "request"
  /\ run' = IF falsy(run.sitemapUrl)
              THEN [run EXCEPT !.pc = "done",
                               !.outcome = Fulfilled(
                                 json([error |-> "sitemapUrl parameter is required"], 400))]
              ELSE [run EXCEPT !.pc = "fetchSitemapUrls"]
  /\ UNCHANGED <<clsVars, batchVars, httpVars, discVars, pageVars>>

\* The server answers a request of fetchSitemapUrls with 429: the
\* interceptor of axiosInstance starts its wait.
SitemapRateLimited ==
  /\ run.pc = "fetchSitemapUrls"
  /\ run' = [run EXCEPT !.pc = "retryAfter"]
  /\ UNCHANGED <<clsVars, batchVars, httpVars, discVars, pageVars>>

\* The wait is over and the request goes out again.
SitemapRetried ==
  /\ run.pc = "retryAfter"
  /\ run' = [run EXCEPT !.pc = "fetchSitemapUrls"]
  /\ UNCHANGED <<clsVars, batchVars, httpVars, discVars, pageVars>>

\* await fetchSitemapUrls(sitemapUrl) returns the list of the site.
SitemapUrlsFetched ==
  /\ run.pc = "fetchSitemapUrls"
  /\ run' = [run EXCEPT !.urls = run.site.D,
                        !.pc = IF run.mode = "POST" THEN "limit"
                               ELSE "addCommonStaticPages"]
  /\ UNCHANGED <<clsVars, batchVars, httpVars, discVars, pageVars>>

\* limitedUrls of the POST handler, route.ts line 89:
\* maxUrls === 'all' ? urls : urls.slice(0, parseInt(maxUrls)).  For slice
\* an end of NaN counts as 0 and a negative end counts from the end of the
\* list.
limitedUrls(list, maxUrls) ==
  LET end == parseInt(maxUrls)
      n   == IF end.nan THEN 0 ELSE end.num
      to  == IF n < 0 THEN Len(list) + n ELSE IF n > Len(list) THEN Len(list) ELSE n
  IN  IF maxUrls = JsString("all") THEN list
      ELSE IF to <= 0 THEN <<>>
      ELSE SubSeq(list, 1, to)

\* POST, route.ts lines 89-92: the cap and categorizeUrls.
LimitUrls ==
  /\ run.pc = "limit"
  /\ LET limited == limitedUrls(run.urls, run.maxUrls)
     IN  run' = [run EXCEPT
                   !.input = limited,
                   !.classified =
                     categorizeUrls([k \in 1..Len(limited) |-> JsString(limited[k])]).value,
                   !.pc = "processAllUrls"]
  /\ UNCHANGED <<clsVars, batchVars, httpVars, discVars, pageVars>>

\* processSitemap, line 1747.
AddCommonStaticPages ==
  /\ run.pc = "addCommonStaticPages"
  /\ run' = [run EXCEPT !.input = addCommonStaticPages(run.sitemapUrl.str, run.urls),
                        !.pc = "processAllUrls"]
  /\ UNCHANGED <<clsVars, batchVars, httpVars, discVars, pageVars>>

\* processAllUrls, lines 1544-1567: the debug loop, which parses the first
\* five URLs, and the classification.
ClassifyUrls ==
  /\ run.pc = "processAllUrls"
  /\ run' =
       LET parsed  == IF \E k \in 1..Len(run.input) : k <= 5 /\ ~URLParses(run.input[k])
                      THEN Rejected("TypeError: Invalid URL")
                      ELSE Fulfilled(run.input)
           sorted  == bucketsFrom(run.input, 1, emptyBuckets)
       IN  IF parsed.state = "rejected" THEN thrown(parsed.error)
           ELSE IF sorted.state = "rejected" THEN thrown(sorted.error)
           ELSE [run EXCEPT !.categorizedUrls = sorted.value, !.pc = "extractProductUrls"]
  /\ UNCHANGED <<clsVars, batchVars, httpVars, discVars, pageVars>>

\* processAllUrls, lines 1578-1582.
ExtractProductUrls ==
  /\ run.pc = "extractProductUrls"
  /\ run' = [run EXCEPT
               !.categorizedUrls.product =
                  IF Len(run.categorizedUrls.category) > 0 /\ Len(@) = 0
                    THEN extractProductUrlsFromCategories(run.categorizedUrls.category)
                    ELSE @,
               !.pc = "extractBlogUrls"]
  /\ UNCHANGED <<clsVars, batchVars, httpVars, discVars, pageVars>>

\* processAllUrls, lines 1585-1591: new URL(urls[0]) throws on the empty
\* list.
ExtractBlogUrls ==
  /\ run.pc = "extractBlogUrls"
  /\ run' =
       IF Len(run.categorizedUrls.blog) # 0
         THEN [run EXCEPT !.pc = "extractBlogPostUrls"]
       ELSE IF run.input = <<>> \/ ~URLParses(run.input[1])
         THEN thrown("TypeError: Invalid URL")
       ELSE [run EXCEPT !.categorizedUrls.blog = extractBlogUrlsFromSite(URLorigin(run.input[1])),
                        !.pc = "extractBlogPostUrls"]
  /\ UNCHANGED <<clsVars, batchVars, httpVars, discVars, pageVars>>

\* processAllUrls, lines 1594-1606.
ExtractBlogPostUrls ==
  /\ run.pc = "extractBlogPostUrls"
  /\ run' =
       LET blogCategoryUrls ==
             SelectSeq(run.categorizedUrls.category,
                       LAMBDA u : includes(toLowerCase(u), "/blog/"))
           existingBlogUrls == {run.categorizedUrls.blog[k] :
                                  k \in 1..Len(run.categorizedUrls.blog)}
           blogPostUrls == extractBlogPostUrls(blogCategoryUrls)
       IN  IF Len(blogCategoryUrls) > 0
             THEN [run EXCEPT
                     !.categorizedUrls.blog =
                        @ \o SelectSeq(blogPostUrls, LAMBDA u : u \notin existingBlogUrls),
                     !.k = 1, !.pc = "bucket"]
             ELSE [run EXCEPT !.k = 1, !.pc = "bucket"]
  /\ UNCHANGED <<clsVars, batchVars, httpVars, discVars, pageVars>>

\* processAllUrls, lines 1611-1622: one bucket is extracted by
\* processInBatches, the page of its URL number j being answered by
\* answers[j], and its records are merged into the result.
ProcessBucket(answers) ==
  /\ run.pc = "bucket"
  /\ DOMAIN answers = 1..Len(run.categorizedUrls[bucketOrder[run.k]])
  /\ run' =
       LET bucket       == bucketOrder[run.k]
           categoryUrls == run.categorizedUrls[bucket]
           categoryData == [j \in 1..Len(categoryUrls) |->
                              [url  |-> categoryUrls[j],
                               data |-> ensureSingleUrlData(categoryUrls[j], bucket, answers[j])]]
       IN  [run EXCEPT !.result = mergeFrom(@, categoryData, 1),
                       !.k = @ + 1,
                       !.pc = IF run.k < Len(bucketOrder) THEN "bucket"
                              ELSE IF run.mode = "POST" THEN "respond"
                              ELSE "ensureMinimumPageTypes"]
  /\ UNCHANGED <<clsVars, batchVars, httpVars, discVars, pageVars>>

\* POST, route.ts lines 111-145: the array, the stats and the answer.
Respond ==
  /\ run.pc = "respond"
  /\ LET pageDataArray == convertPageDataToArray(run.result)
     IN  run' = [run EXCEPT
                   !.pc = "done",
                   !.outcome = Fulfilled(json(
                      [results     |-> pageDataArray,
                       categorized |-> updatedCategorized(pageDataArray),
                       stats       |-> postStats(pageDataArray)], 200))]
  /\ UNCHANGED <<clsVars, batchVars, httpVars, discVars, pageVars>>

\* processSitemap, line 1754.
EnsureMinimumPageTypes ==
  /\ run.pc = "ensureMinimumPageTypes"
  /\ run' = [run EXCEPT !.result = ensureMinimumPageTypes(run.sitemapUrl.str, @),
                        !.pc = "sampleBlog"]
  /\ UNCHANGED <<clsVars, batchVars, httpVars, discVars, pageVars>>

\* processSitemap, lines 1758-1773.
SampleBlog ==
  /\ run.pc = "sampleBlog"
  /\ run' = [run EXCEPT !.result = sampleBlog(run.sitemapUrl.str, @),
                        !.pc = "getPageStats"]
  /\ UNCHANGED <<clsVars, batchVars, httpVars, discVars, pageVars>>

\* processSitemap, lines 1776-1781.
ReturnStats ==
  /\ run.pc = "getPageStats"
  /\ run' = [run EXCEPT
               !.pc = "done",
               !.outcome = Fulfilled([pageData |-> run.result,
                                      stats    |-> getPageStats(run.result)])]
  /\ UNCHANGED <<clsVars, batchVars, httpVars, discVars, pageVars>>

\* processAllUrls, lines 1611-1614: the loop over the buckets reaches the
\* next bucket and calls processInBatches on its URLs.
StartBucket ==
  /\ run.pc = "bucket"
  /\ run.k <= Len(bucketOrder)
  /\ items' = run.categorizedUrls[bucketOrder[run.k]]
  /\ handler' = [k \in 1..Len(items') |-> Idle]
  /\ i' = 0
  /\ results' = <<>>
  /\ pcBatch' = "loop"
  /\ run' = [run EXCEPT !.pc = "processInBatches"]
  /\ UNCHANGED <<clsVars, httpVars, discVars, pageVars>>

\* The merge that takes what the handlers have produced so far, without
\* waiting for processInBatches.
MergeBucket_eager ==
  /\ run.pc = "processInBatches"
  /\ LET produced == [j \in 1..Len(items) |->
                        IF handler[j].state = "fulfilled" THEN handler[j].value
                        ELSE [error |-> "pending"]]
         categoryData == SelectSeq(produced, LAMBDA r : has(r, "data"))
     IN  /\ categoryData # <<>>
         /\ run' = [run EXCEPT !.result = mergeFrom(@, categoryData, 1)]
  /\ UNCHANGED <<clsVars, batchVars, httpVars, discVars, pageVars>>

\* processAllUrls, lines 1614-1621: await processInBatches(...) has
\* returned categoryData and every entry with data is written to the
\* result; the loop goes on with the next bucket and returns after the
\* last.
MergeBucket ==
  /\ run.pc = "processInBatches"
  /\ pcBatch = "returned"
  /\ LET categoryData == SelectSeq(results, LAMBDA r : has(r, "data"))
     IN  run' = [run EXCEPT !.result = mergeFrom(@, categoryData, 1),
                           !.k = @ + 1,
                           !.pc = IF run.k < Len(bucketOrder) THEN "bucket" ELSE "returned"]
  /\ UNCHANGED <<clsVars, batchVars, httpVars, discVars, pageVars>>

\* The call with the writes made to processedData itself instead of a copy.
CallEnsureMinimumPageTypes_inPlace ==
  /\ run.pc = "call"
  /\ run' = [run EXCEPT !.result = ensureMinimumPageTypes(run.baseUrl, run.processedData),
                        !.processedData = ensureMinimumPageTypes(run.baseUrl, @),
                        !.pc = "returned"]
  /\ UNCHANGED <<clsVars, batchVars, httpVars, discVars, pageVars>>

\* A call of ensureMinimumPageTypes(baseUrl, processedData) by itself,
\* lines 1806-1940: the writes go to the copy { ...processedData }, which
\* is returned; processedData is the caller's object after the call.
CallEnsureMinimumPageTypes ==
  /\ run.pc = "call"
  /\ run' = [run EXCEPT !.result = ensureMinimumPageTypes(run.baseUrl, run.processedData),
                        !.pc = "returned"]
  /\ UNCHANGED <<clsVars, batchVars, httpVars, discVars, pageVars>>

-----------------------------------------------------------------------------
(* Values of the components a specification does not exercise *)

idleBatch ==
  /\ items = <<>>
  /\ handler = <<>>
  /\ i = 0
  /\ results = <<>>
  /\ pcBatch = "idle"

idleHttp == request = Idle

idleDisc ==
  /\ world = Idle
  /\ calls = <<>>

idlePage == page = Idle

idleRun == run = Idle

idleCls ==
  /\ url = JsUndefined
  /\ category = Idle
  /\ urls = <<>>
  /\ buckets = Idle

-----------------------------------------------------------------------------
(* Specification of the classifier: one call of categorizeUrl and one call
   of categorizeUrls on inputs drawn from a bounded set of values. *)

MaxChunks == 3

Origin == "https://x"

Chunks ==
  {"/", "/urun", "/blog", "/icerik", "/kategori", "/category", "/product",
   "/p", "/about", "/about-us", "/sayfa", "/random", "/1"}

RECURSIVE PathsUpTo(_)
PathsUpTo(n) ==
  IF n = 0 THEN {""}
  ELSE LET shorter == PathsUpTo(n - 1)
       IN  shorter \cup {p \o c : p \in shorter, c \in Chunks}

Queries == {"", "?ref=/blog/"}

ExampleUrls ==
  {"https://x/", "https://x/urun/123", "https://x/blog/icerik/abc",
   "https://x/kategori/ayakkabi", "https://x/random/xyz"}

MalformedUrls == {"not a url", "/urun/1", "x.com/blog/a", "https://"}

\* Blog paths with a blog-category marker below the first segment.
NestedBlogUrls ==
  {"https://x/blog/2024/blog/kategori/a", "https://x/blog/arsiv/blog/category/"}

UrlStrings ==
  {Origin \o p \o q : p \in PathsUpTo(MaxChunks), q \in Queries}
    \cup ExampleUrls \cup NestedBlogUrls \cup MalformedUrls \cup {""}

UrlInputs ==
  {JsString(s) : s \in UrlStrings} \cup {JsUndefined, JsNumber(0), JsNumber(5)}

InitClassify ==
  /\ url \in UrlInputs
  /\ category = Pending
  /\ urls = <<JsString("https://x/urun/1"), url>>
  /\ buckets = Pending
  /\ idleBatch /\ idleHttp /\ idleDisc /\ idlePage /\ idleRun

CallCategorizeUrl ==
  /\ category.state = "pending"
  /\ category' = categorizeUrl(url)
  /\ UNCHANGED <<url, urls, buckets, batchVars, httpVars, discVars, pageVars, runVars>>

CallCategorizeUrls ==
  /\ buckets.state = "pending"
  /\ buckets' = categorizeUrls(urls)
  /\ UNCHANGED <<url, urls, category, batchVars, httpVars, discVars, pageVars, runVars>>

NextClassify == CallCategorizeUrl \/ CallCategorizeUrls

SpecClassify == InitClassify /\ [][NextClassify]_vars

-----------------------------------------------------------------------------
(* Claims about the classifier *)

\* C1: categorizeUrl is total: for every input string, also one that does
\* not parse as an absolute URL, the call completes without raising and
\* returns one of the five labels.
C1_TotalFiveLabels ==
  (url.type = "string" /\ category.state # "pending")
    => (category.state = "fulfilled" /\ category.value \in Categories)

\* The nine rules of the classifier's contract, first match wins.
SpecProductPrefixes ==
  <<"/product/", "/urun/", "/p/", "/shop/", "/item/", "/product-detail/">>
SpecBlogContentPrefixes == <<"/blog/icerik/">>
SpecCategoryPrefixes ==
  <<"/category/", "/kategori/", "/cat/", "/collections/",
    "/blog/kategori/", "/blog/category/">>
SpecGenericCategoryPrefixes == <<"/category/", "/kategori/", "/cat/", "/collections/">>
SpecBlogPrefixes == <<"/blog/", "/icerik/">>
SpecBlogCategoryPrefixes == <<"/blog/kategori/", "/blog/category/">>

begins(path, prefixes) == \E k \in 1..Len(prefixes) : startsWith(path, prefixes[k])
contains(path, parts) == \E k \in 1..Len(parts) : includes(path, parts[k])

NineRules(path) ==
  IF path = "/" THEN "static"
  ELSE IF begins(path, SpecProductPrefixes) THEN "product"
  ELSE IF begins(path, SpecBlogContentPrefixes) THEN "blog"
  ELSE IF begins(path, SpecCategoryPrefixes) THEN "category"
  ELSE IF begins(path, SpecGenericCategoryPrefixes) /\ ~includes(path, "/blog/")
    THEN "category"
  ELSE IF begins(path, SpecProductPrefixes) THEN "product"
  ELSE IF begins(path, SpecBlogPrefixes) /\ ~contains(path, SpecBlogCategoryPrefixes)
    THEN "blog"
  ELSE IF begins(path, staticPatterns) THEN "static"
  ELSE "others"

ExampleLabel(s) ==
  CASE s = "https://x/" -> "static"
    [] s = "https://x/urun/123" -> "product"
    [] s = "https://x/blog/icerik/abc" -> "blog"
    [] s = "https://x/kategori/ayakkabi" -> "category"
    [] s = "https://x/random/xyz" -> "others"

\* C2: for every URL path categorizeUrl returns the category of the nine
\* rules applied in the documented order, and the five documented examples
\* get their documented labels.
C2_NineRuleOrder ==
  (category.state = "fulfilled" /\ url.type = "string" /\ URLParses(url.str))
    => /\ category.value = NineRules(URLpathname(url.str))
       /\ url.str \in ExampleUrls => category.value = ExampleLabel(url.str)

\* A blog-category path has been classified: the category rule won over
\* the blog rule that also matches its prefix.
C2_Witness ==
  /\ url = JsString("https://x/blog/kategori/1")
  /\ category = Fulfilled("category")

\* C3: an empty string, a non-string value and a malformed URL string are
\* all classified static instead of raising.
C3_InvalidInputIsStatic ==
  (/\ category.state # "pending"
   /\ (falsy(url) \/ url.type # "string" \/ ~URLParses(url.str)))
    => category = Fulfilled("static")

-----------------------------------------------------------------------------
(* Specification of the batch scheduler: one call of processInBatches on a
   list of distinct items with a handler whose promises settle in any
   order and either way. *)

MaxItems == 12

ItemLists ==
  {[k \in 1..n |-> "https://x/page/" \o ToString(k)] : n \in 0..MaxItems}

InitBatch ==
  /\ items \in ItemLists
  /\ handler = [k \in 1..Len(items) |-> Idle]
  /\ i = 0
  /\ results = <<>>
  /\ pcBatch = "loop"
  /\ idleCls /\ idleHttp /\ idleDisc /\ idlePage /\ idleRun

NextBatch ==
  \/ StartBatch
  \/ ReturnResults
  \/ \E k \in DOMAIN handler : HandlerSettles(k)
  \/ BatchSettles
  \/ DelayElapses

SpecBatch == InitBatch /\ [][NextBatch]_vars

\* Window (0-based) of the item with index k.
windowOf(k) == (k - 1) \div maxConcurrent

inFlight == {k \in DOMAIN handler : handler[k].state = "pending"}

settled(k) == handler[k].state \in {"fulfilled", "rejected"}

\* C4: at no moment are more than 10 handler invocations in flight, and no
\* invocation of a window is in flight or settled before every invocation of
\* all earlier windows has settled.
C4_WindowBound ==
  /\ Cardinality(inFlight) <= 10
  /\ \A k \in DOMAIN handler : handler[k].state # "idle" =>
        \A j \in DOMAIN handler : windowOf(j) < windowOf(k) => settled(j)

\* The second window is in flight after the full first window settled.
C4_Witness ==
  /\ Len(items) = 12
  /\ Cardinality(inFlight) = 2
  /\ \A j \in 1..10 : settled(j)

\* What the caller is to find in the slot of item k when the handler's
\* promise for it has settled.
outcome(k) ==
  IF handler[k].state = "fulfilled" THEN handler[k].value
  ELSE [error |-> handler[k].error]

\* C5: the returned list has the length of the input and its k-th element
\* is the outcome of the handler on the k-th item, whatever the order in
\* which the handlers of a window completed.
C5_IndexAligned ==
  pcBatch = "returned" =>
    /\ Len(results) = Len(items)
    /\ \A k \in 1..Len(items) : settled(k) /\ results[k] = outcome(k)

\* A call over two windows has returned.
C5_Witness ==
  /\ pcBatch = "returned"
  /\ Len(items) = 12
  /\ Len(results) = 12
  /\ results[11] = [url |-> items[11], data |-> "data"]

\* C6: a failing handler never aborts the batch: processInBatches does not
\* reject, and when it returns every item was invoked, the slot of a failed
\* item holds an {error} record and the slot of every other item its result.
C6_FailureIsolated ==
  /\ pcBatch # "rejected"
  /\ pcBatch = "returned" =>
       \A k \in 1..Len(items) :
         /\ handler[k].state = "rejected" =>
              (k <= Len(results) /\ results[k] = [error |-> handler[k].error])
         /\ handler[k].state # "rejected" =>
              (/\ handler[k].state = "fulfilled"
               /\ k <= Len(results)
               /\ results[k] = handler[k].value)

\* The call returned although a handler of the first window had failed,
\* with the results of the same window and of the later window in place.
C6_Witness ==
  /\ pcBatch = "returned"
  /\ Len(items) = 11
  /\ handler[1].state = "rejected"
  /\ results[1] = [error |-> "Error: https://x/page/1"]
  /\ handler[2].state = "fulfilled"
  /\ handler[11].state = "fulfilled"
  /\ results[11] = handler[11].value

-----------------------------------------------------------------------------
(* Specification of the fetch client: one request through axiosInstance
   against a server that answers each attempt with any status and any
   retry-after header, or not at all. *)

MaxAttempts == 3

Statuses == {200, 204, 404, 429, 430, 500, 503}

RetryAfterValues ==
  {JsUndefined, JsString(""), JsString("0"), JsString("1"), JsString("2"),
   JsString(" 3"), JsString("-1"), JsString("1.5"), JsString("abc"),
   JsString("Wed, 21 Oct 2026 07:28:00 GMT")}

Responses ==
  {Response(st, [h \in {"retry-after"} |-> ra]) :
     st \in Statuses, ra \in RetryAfterValues} \cup {JsUndefined}

Configs ==
  {[method |-> m, url |-> u] :
     m \in {"get", "head"}, u \in {"https://x/sitemap.xml", "https://x/robots.txt"}}

InitHttp ==
  /\ \E config \in Configs :
       request = [pc |-> "inflight", config |-> config, issued |-> <<config>>,
                  last |-> JsUndefined, timer |-> 0, waited |-> 0,
                  outcome |-> Pending]
  /\ idleCls /\ idleBatch /\ idleDisc /\ idlePage /\ idleRun

\* The server stops answering 429 when the attempts of the model are used up.
NextHttp ==
  \/ \E response \in Responses :
       /\ (isRateLimited([response |-> response]) => Len(request.issued) < MaxAttempts)
       /\ ResponseArrives(response)
  \/ SecondPasses
  \/ RetryAfterWait

SpecHttp == InitHttp /\ [][NextHttp]_vars

\* The request goes out again in this step.
Reissued == Len(request'.issued) > Len(request.issued)

\* C10: a request is re-issued if and only if its response was HTTP 429:
\* a re-issue happens only for a 429 answer, once, with the identical
\* request and after the wait has elapsed; an answer of 429 is never
\* handed to the caller; every other error status reaches the caller
\* unchanged and ends the request.
C10_RetryIff429 ==
  /\ [][Reissued =>
          /\ request.last.type # "undefined"
          /\ request.last.status = 429
          /\ request.pc = "waiting"
          /\ request.waited >= request.timer
          /\ request'.issued = Append(request.issued, request.config)
          /\ request'.config = request.config]_vars
  /\ [][(request.pc = "inflight" /\ request'.pc = "waiting")
          => request'.last.status = 429]_vars
  /\ [](request.pc \in {"fulfilled", "rejected"} =>
          /\ ~isRateLimited([response |-> request.last])
          /\ \A k \in 1..Len(request.issued) : request.issued[k] = request.config)
  /\ [](request.pc = "rejected" =>
          /\ request.outcome = Rejected([config |-> request.config,
                                         response |-> request.last])
          /\ request.last.type # "undefined" => ~validateStatus(request.last.status))
  /\ [][request.pc \in {"fulfilled", "rejected"} => request' = request]_vars

\* The request was answered 429 twice, waited each time and went out a
\* third time; that attempt was answered 503, which reached the caller.
C10_Witness ==
  /\ Len(request.issued) = 3
  /\ request.pc = "rejected"
  /\ request.last.type = "object"
  /\ request.last.status = 503
  /\ request.waited >= 1000

\* A retry-after header value that is a non-negative integer number of
\* seconds (HTTP delta-seconds: one or more digits).
isDeltaSeconds(v) ==
  /\ v.type = "string"
  /\ Len(v.str) > 0
  /\ \A k \in 1..Len(v.str) : isDigit(charAt(v.str, k))

\* A retry-after header that is absent or holds no number.
notANumber(v) ==
  \/ v.type = "undefined"
  \/ v.type = "string" /\ \A k \in 1..Len(v.str) : ~isDigit(charAt(v.str, k))

\* C11: while the client waits before a retry, the timer is exactly
\* retry-after x 1000 ms when the 429 answer carried a non-negative integer
\* number of seconds (0 included), and exactly 30000 ms when the header was
\* absent or not a number.
C11_RetryAfterWaitExact ==
  request.pc = "waiting" =>
    LET retryAfter == request.last.headers["retry-after"]
    IN  /\ isDeltaSeconds(retryAfter) =>
             request.timer = readDigits(retryAfter.str, 1, 0, 0).num * 1000
        /\ notANumber(retryAfter) => request.timer = 30000

-----------------------------------------------------------------------------
(* Specification of sitemap discovery: one top-level call of
   fetchSitemapUrls against one of a set of remote sites: plain URL sets,
   sitemap indexes that list themselves or each other, indexes with
   failing children, entry URLs that need probing, and indexes wider than
   one batch. *)

MaxChildren == 11

Index(children) ==
  [kind |-> "sitemapindex", entries |-> [k \in 1..Len(children) |-> JsString(children[k])]]

UrlSet(pages) ==
  [kind |-> "urlset", entries |-> [k \in 1..Len(pages) |-> JsString(pages[k])]]

Site(entry, docs, robots, heads) ==
  [entry |-> entry, docs |-> docs, robots |-> robots, heads |-> heads]

NoRobots == JsUndefined
Robots(lines) == [type |-> "lines", lines |-> lines]

Root == "https://x/sitemap.xml"

LeafLocation(k) == "https://x/sitemap-" \o ToString(k) \o ".xml"
LeafPage(k) == "https://x/urun/" \o ToString(k)
LeafDocs(ks) == [l \in {LeafLocation(k) : k \in ks} |->
                  UrlSet(<<LeafPage(CHOOSE k \in ks : LeafLocation(k) = l)>>)]
Leaves(from, to) == [k \in 1..(to - from + 1) |-> LeafLocation(from + k - 1)]

\* A URL set with a malformed and a relative entry among the valid ones.
SiteFlat ==
  Site("https://x/SITEMAP.XML",
       [l \in {"https://x/SITEMAP.XML"} |->
          UrlSet(<<"https://x/", "not a url", "https://x/urun/1", "/sayfa/a">>)],
       NoRobots, {})

\* An index that lists itself.
SiteSelf ==
  Site(Root, [l \in {Root} |-> Index(<<Root>>)], NoRobots, {})

\* Two indexes that list each other; the second also lists a URL set.
SiteMutual ==
  Site(Root,
       [l \in {Root, "https://x/sitemap-b.xml", LeafLocation(1)} |->
          IF l = Root THEN Index(<<"https://x/sitemap-b.xml">>)
          ELSE IF l = LeafLocation(1) THEN UrlSet(<<LeafPage(1)>>)
          ELSE Index(<<Root, LeafLocation(1)>>)],
       NoRobots, {})

\* An index whose children succeed, cannot be fetched, are no XML, are an
\* index with an entry without loc, are XML of another kind.
SitePartial ==
  Site(Root,
       [l \in {Root, LeafLocation(1), "https://x/sitemap-c.xml",
               "https://x/sitemap-d.xml", "https://x/sitemap-e.xml",
               LeafLocation(2)} |->
          IF l = Root
            THEN Index(<<LeafLocation(1), "https://x/sitemap-b.xml",
                         "https://x/sitemap-c.xml", "https://x/sitemap-d.xml",
                         "https://x/sitemap-e.xml", LeafLocation(2)>>)
          ELSE IF l = "https://x/sitemap-c.xml" THEN [kind |-> "malformed"]
          ELSE IF l = "https://x/sitemap-d.xml"
            THEN [kind |-> "sitemapindex",
                  entries |-> <<JsString(LeafLocation(1)), JsUndefined>>]
          ELSE IF l = "https://x/sitemap-e.xml" THEN [kind |-> "other"]
          ELSE IF l = LeafLocation(1) THEN UrlSet(<<LeafPage(1), "not a url">>)
          ELSE UrlSet(<<LeafPage(2)>>)],
       NoRobots, {})

\* A site URL as entry; robots.txt declares the index; one child location
\* of the index has no "sitemap" in it and is probed again.
SiteProbe ==
  Site("https://x/",
       [l \in {"https://x/sitemap_index.xml", "https://x/products.xml",
               LeafLocation(1)} |->
          IF l = "https://x/sitemap_index.xml"
            THEN Index(<<"https://x/products.xml", LeafLocation(1)>>)
          ELSE IF l = "https://x/products.xml" THEN UrlSet(<<LeafPage(2)>>)
          ELSE UrlSet(<<LeafPage(1)>>)],
       Robots(<<"User-agent: *", "Sitemap: https://x/sitemap_index.xml">>),
       {"https://x/sitemap_index.xml", "https://x/products.xml"})

\* A site URL as entry, no robots.txt, the sitemap at a well-known place.
SiteWellKnown ==
  Site("https://x/",
       [l \in {"https://x/wp-sitemap.xml"} |-> UrlSet(<<LeafPage(1)>>)],
       NoRobots, {"https://x/wp-sitemap.xml"})

\* A site URL as entry and no sitemap anywhere: the page itself is fetched.
SiteNone ==
  Site("https://x", [l \in {"https://x"} |-> [kind |-> "malformed"]],
       Robots(<<"User-agent: *", "Sitemap: ">>), {"https://x"})

\* An index of two indexes that list MaxChildren + 1 URL sets between them.
SiteWide ==
  LET half == (MaxChildren + 1) \div 2
  IN  Site(Root,
           [l \in {Root, "https://x/sitemap-a.xml", "https://x/sitemap-b.xml"} |->
              IF l = Root
                THEN Index(<<"https://x/sitemap-a.xml", "https://x/sitemap-b.xml">>)
              ELSE IF l = "https://x/sitemap-a.xml" THEN Index(Leaves(1, half))
              ELSE Index(Leaves(half + 1, MaxChildren + 1))]
             @@ LeafDocs(1..(MaxChildren + 1)),
           NoRobots, {})

\* An index of MaxChildren URL sets: more than one batch.
SiteBig ==
  Site(Root,
       [l \in {Root} |-> Index(Leaves(1, MaxChildren))] @@ LeafDocs(1..MaxChildren),
       NoRobots, {})

\* A site URL as entry; the location robots.txt declares does not answer,
\* two of the well-known locations do.
SiteMoved ==
  Site("https://x/shop/",
       [l \in {"https://x/shop/sitemap.xml", "https://x/shop/wp-sitemap.xml"} |->
          IF l = "https://x/shop/sitemap.xml" THEN UrlSet(<<LeafPage(1)>>)
          ELSE UrlSet(<<LeafPage(2)>>)],
       Robots(<<"Sitemap: https://x/old.xml">>),
       {"https://x/shop/sitemap.xml", "https://x/shop/wp-sitemap.xml"})

Sites ==
  {SiteFlat, SiteSelf, SiteMutual, SitePartial, SiteProbe, SiteWellKnown,
   SiteNone, SiteMoved, SiteWide, SiteBig}

top == <<>>

InitDiscover ==
  /\ world \in Sites
  /\ calls = [c \in {top} |-> newCall(world.entry, 0)]
  /\ idleCls /\ idleBatch /\ idleHttp /\ idlePage /\ idleRun

NextDiscover ==
  \/ \E c \in DOMAIN calls : Resolved(c)
  \/ \E c \in DOMAIN calls : DocumentArrives(c)
  \/ \E c \in DOMAIN calls : ChildrenSettle(c)
  \/ \E c \in DOMAIN calls : PauseElapses(c)

SpecDiscover == InitDiscover /\ [][NextDiscover]_vars

\* Every request is answered or times out (timeout 10000 and 15000 ms) and
\* every timer fires, so a step that can be taken is taken eventually.
SpecDiscoverLive == SpecDiscover /\ WF_vars(NextDiscover)

-----------------------------------------------------------------------------
(* Claims about sitemap discovery *)

Range(f) == {f[k] : k \in DOMAIN f}

fetching == {c \in DOMAIN calls : calls[c].pc = "fetching"}

succeededUrlSet(c) ==
  /\ calls[c].pc = "done"
  /\ calls[c].fetched
  /\ ~calls[c].failed
  /\ GET(calls[c].sitemapUrl).kind = "urlset"

\* C8: a fetch or parse failure at a node makes the call for that node
\* return the empty list and never raise, and the top-level result holds
\* every valid URL of every URL set that was fetched successfully.
C8_FailureIsLocal ==
  /\ \A c \in DOMAIN calls :
       /\ calls[c].result.state # "rejected"
       /\ calls[c].failed => calls[c].result = Fulfilled(<<>>)
  /\ calls[top].pc = "done" =>
       \A c \in DOMAIN calls : succeededUrlSet(c) =>
         /\ Range(filterValid(calls[c].urls)) \subseteq Range(calls[top].result.value)
         /\ calls[c].urls = locs(GET(calls[c].sitemapUrl).entries)

\* Four children of the index failed, each in its own way, and the URLs
\* of the two that succeeded are the result.
C8_Witness ==
  /\ world = SitePartial
  /\ calls[top].result = Fulfilled(<<LeafPage(1), LeafPage(2)>>)
  /\ calls[<<2>>].failed /\ calls[<<3>>].failed /\ calls[<<4>>].failed
  /\ ~calls[<<5>>].failed

\* C9: during one top-level call the number of sitemap fetches in flight
\* never exceeds the window size 10, the fetches of nested calls included.
C9_GlobalWindow == Cardinality(fetching) <= 10

-----------------------------------------------------------------------------
(* Specification of page extraction: one call of extractPageData on a URL
   of a bounded set, against a server that does not answer, answers with
   an error status, or answers 200 with one of a family of documents:
   pages with and without title, meta description, heading and main
   content (their texts empty, blank or filled), and articles with and
   without paragraphs, lazily loaded images and category links. *)

NoElements == [s \in {} |-> <<>>]

\* The selector s yields the elements es; nothing for no elements.
Yields(s, es) == IF es = <<>> THEN NoElements ELSE s :> es

NoAttrs == [a \in {} |-> ""]

Text(t) == <<Element(NoAttrs, t)>>

Meta(content) == <<Element("content" :> content, "")>>

Absent == <<>>

Texts == {"", " ", "Heading"}

PlainDocuments ==
  {[title |-> title,
    sel   |-> Yields("meta[name=\"description\"]", meta)
                @@ Yields("h1", h1) @@ Yields("main", main)] :
     title \in {"", "Page"},
     meta  \in {Absent, Meta(""), Meta("  "), Meta("About this page")},
     h1    \in {Absent} \cup {Text(t) : t \in Texts},
     main  \in {Absent, Text(""), Text(" Main text of the page ")}}

Paragraphs ==
  {Absent, Text(" "), Text("First paragraph") \o Text("Second paragraph")}

LazyImage == <<Element("data-src" :> "/img/a.png", "")>>

Icon == <<Element(("data-src" :> "/img/icon.png") @@ ("width" :> "16")
                    @@ ("height" :> "16"), "")>>

ArticleDocuments ==
  {[title |-> "Post",
    sel   |-> Yields("article, .post, .blog-post", Text("article"))
                @@ Yields("meta[name=\"description\"]", meta)
                @@ Yields("article p", ps)
                @@ Yields("article img", imgs)
                @@ Yields("article img, .post-content img, .blog-content img, .icerik img", imgs)
                @@ Yields("meta[property=\"og:image\"]", og)
                @@ Yields(".post-categories a", cats)] :
     meta \in {Absent, Meta("short"), Meta("A post about things")},
     ps   \in Paragraphs,
     imgs \in {Absent, LazyImage, Icon},
     og   \in {Absent, Meta(""), Meta("https://x/og.png")},
     cats \in {Absent, Text(" "), Text(" News ") \o Text("")}}

ShopDocuments ==
  {[title |-> "Shop",
    sel   |-> Yields(marker, Text("Shop"))
                @@ Yields(".product-image img[src]", imgs)
                @@ Yields("img[src]", imgs)] :
     marker \in {".product-detail, .product, [itemtype*=\"Product\"]",
                 ".category-description, .category-header, .products-category"},
     imgs   \in {Absent, <<Element("src" :> "/img/p.png", "")>>}}

Documents == PlainDocuments \cup ArticleDocuments \cup ShopDocuments

PageStatuses == {404, 429, 500}

PageAnswers ==
  {JsUndefined}
    \cup {[type |-> "object", status |-> st, headers |-> NoAttrs, data |-> JsUndefined] :
            st \in PageStatuses}
    \cup {[type |-> "object", status |-> 200, headers |-> NoAttrs, data |-> d] :
            d \in Documents}

PageUrls ==
  {"https://x", "https://x/", "https://x/about-us", "https://x/sayfa/",
   "https://x/blog/my-first-post", "https://x/urun/1", "https://x/kategori/a",
   "https://x/collections/b?page=2", "x.com/about-us",
   "https://toptanturkiye.com/blog/kategori/ev-tekstili"}

InitExtract ==
  /\ \E u \in PageUrls :
       page = [pc |-> "fetching", url |-> u, last |-> JsUndefined, outcome |-> Pending]
  /\ idleCls /\ idleBatch /\ idleHttp /\ idleDisc /\ idleRun

NextExtract == \E response \in PageAnswers : PageArrives(response)

SpecExtract == InitExtract /\ [][NextExtract]_vars

\* The request of the call was answered with success.
fetchedPage == page.last.type # "undefined" /\ validateStatus(page.last.status)

\* The record the call returned.
record == page.outcome.value

\* C12: rate limiting is transparent to the caller of extractPageData: a
\* 429 answer to the page fetch is retried by the fetch client and never
\* ends the call, and no returned record carries an error that stems from
\* a 429 answer.
C12_RateLimitTransparent ==
  page.pc = "done" =>
    /\ ~isRateLimited([response |-> page.last])
    /\ has(record, "error") =>
         record.error # "AxiosError: Request failed with status code 429"

\* C19: for every successfully fetched page the returned record has a
\* non-empty title and a non-empty description, and a record typed blog
\* has a non-empty blogCategories list and a non-empty images list.
C19_AlwaysPopulated ==
  (page.pc = "done" /\ fetchedPage) =>
    /\ page.outcome.state = "fulfilled"
    /\ has(record, "title") /\ record.title # ""
    /\ has(record, "description") /\ record.description # ""
    /\ record.type = "blog" =>
         /\ has(record, "blogCategories") /\ record.blogCategories # <<>>
         /\ has(record, "images") /\ record.images # <<>>

\* The last segment of the path of a URL.
lastPathSegment(u) == IF URLParses(u) THEN lastPart(URLpathname(u)) ELSE lastPart(u)

\* C18 as stated: extractPageData never raises; when the fetch fails it
\* returns a record for the same url with type others, error set, an empty
\* image list and a title derived from the last URL path segment.
C18_FallbackTitleFromSegment ==
  (page.pc = "done" /\ ~fetchedPage) =>
    /\ page.outcome.state = "fulfilled"
    /\ record.url = page.url
    /\ record.type = "others"
    /\ has(record, "error") /\ record.error # ""
    /\ record.images = <<>>
    /\ record.title = hyphensToSpaces(lastPathSegment(page.url), 1)

\* C18 as amended: extractPageData never raises; when the fetch fails it
\* returns a record for the same url with type others, error set, an empty
\* image list and, as title, the text after the last "/" of the URL string
\* with hyphens replaced by spaces, or the URL itself when no text follows
\* the last "/".
C18_FallbackRecord ==
  /\ page.pc = "done" => page.outcome.state = "fulfilled"
  /\ (page.pc = "done" /\ ~fetchedPage) =>
       /\ record.url = page.url
       /\ record.type = "others"
       /\ has(record, "error") /\ record.error # ""
       /\ record.images = <<>>
       /\ LET k    == lastSlash(page.url, Len(page.url))
              text == SubSeq(page.url, k + 1, Len(page.url))
          IN  IF text = "" THEN record.title = page.url
              ELSE /\ Len(record.title) = Len(text)
                   /\ \A c \in 1..Len(text) :
                        charAt(record.title, c) =
                          IF charAt(text, c) = "-" THEN " " ELSE charAt(text, c)

\* The fetch of a URL that ends with "/" failed with status 500 and the
\* call returned the fallback record, titled with the URL.
C18_Witness ==
  /\ page.pc = "done"
  /\ page.url = "https://x/sayfa/"
  /\ page.last.type = "object" /\ page.last.status = 500
  /\ page.outcome = Fulfilled(record)
  /\ record.title = "https://x/sayfa/"
  /\ record.error = "AxiosError: Request failed with status code 500"

-----------------------------------------------------------------------------
(* Specification of the pipeline: one run of the POST handler or of
   processSitemap on a site whose sitemap lists up to MaxUrls URLs of
   every class, with and without category and blog pages that link to
   further products and posts, and with pages that load or fail when they
   are extracted. *)

MaxUrls == 2

SitemapPool ==
  {"https://x/urun/1", "https://x/kategori/a", "https://x/blog/kategori/b",
   "https://x/blog/icerik/p", "https://x/about-us", "https://x/other"}

RECURSIVE ListsUpTo(_, _)
ListsUpTo(S, n) ==
  IF n = 0 THEN {<<>>}
  ELSE ListsUpTo(S, n - 1)
         \cup {Append(l, e) : l \in {m \in ListsUpTo(S, n - 1) : Len(m) = n - 1}, e \in S}

NoAnchors == [l \in {} |-> <<>>]

SiteAnchors ==
  ("https://x/kategori/a" :> <<"/urun/2", "https://x/urun/1", "/kategori/a", "">>)
    @@ ("https://x/blog/kategori/b" :> <<"/blog/icerik/p", "icerik/q", "/blog/kategori/b">>)
    @@ ("https://x/blog" :> <<"/blog/icerik/p", "/blog/icerik/r", "/about-us">>)

\* The URLs of an index of two child sitemaps, one listing /urun/1 and one
\* listing /kategori/a and /sayfa/hakkimizda.
IndexUrls == <<"https://x/urun/1", "https://x/kategori/a", "https://x/sayfa/hakkimizda">>

RunSites ==
  {[D |-> D, anchors |-> anchors, heads |-> heads] :
     D \in ListsUpTo(SitemapPool, MaxUrls) \cup {IndexUrls},
     anchors \in {NoAnchors, SiteAnchors},
     heads \in {{}, {"https://x/about", "https://x/page"}}}

Caps ==
  {JsUndefined, JsString("all"), JsNumber(0), JsNumber(1), JsString("2"),
   JsNumber(MaxUrls + 1)}

LoadedPage ==
  [type |-> "object", status |-> 200, headers |-> NoAttrs,
   data |-> [title |-> "Page", sel |-> NoElements]]

FailedPage ==
  [type |-> "object", status |-> 500, headers |-> NoAttrs, data |-> JsUndefined]

RunAnswers == {LoadedPage, FailedPage}

newRun(mode, sitemapUrl, maxUrls, site) ==
  [mode |-> mode, sitemapUrl |-> sitemapUrl, maxUrls |-> maxUrls, site |-> site,
   pc |-> IF mode = "POST" THEN "request" ELSE "fetchSitemapUrls",
   urls |-> <<>>, input |-> <<>>, classified |-> emptyBuckets,
   categorizedUrls |-> emptyBuckets, k |-> 0, result |-> <<>>,
   outcome |-> Pending]

InitRun ==
  /\ \/ \E site \in RunSites, maxUrls \in Caps :
          /\ site.heads = {}
          /\ run = newRun("POST", JsString("https://x/sitemap.xml"), maxUrls, site)
     \/ \E site \in RunSites :
          /\ site.heads = {} /\ site.anchors = NoAnchors
          /\ run = newRun("POST", JsUndefined, JsString("all"), site)
     \/ \E site \in RunSites, siteUrl \in {"https://x", "https://x/"} :
          run = newRun("processSitemap", JsString(siteUrl), JsUndefined, site)
  /\ idleCls /\ idleBatch /\ idleHttp /\ idleDisc /\ idlePage

NextRun ==
  \/ ReceiveRequest
  \/ SitemapRateLimited
  \/ SitemapRetried
  \/ SitemapUrlsFetched
  \/ LimitUrls
  \/ AddCommonStaticPages
  \/ ClassifyUrls
  \/ ExtractProductUrls
  \/ ExtractBlogUrls
  \/ ExtractBlogPostUrls
  \/ \E n \in 0..(2 * MaxUrls + 4) : \E answers \in [1..n -> RunAnswers] :
       ProcessBucket(answers)
  \/ Respond
  \/ EnsureMinimumPageTypes
  \/ SampleBlog
  \/ ReturnStats

SpecRun == InitRun /\ [][NextRun]_vars

\* Every request is answered and every timer fires.
SpecRunLive == SpecRun /\ WF_vars(NextRun)

\* The run has returned a result to its caller: processSitemap is
\* fulfilled, the POST handler has answered with status 200.
returned ==
  /\ run.pc = "done"
  /\ run.outcome.state = "fulfilled"
  /\ run.mode = "POST" => run.outcome.value.status = 200

\* The stats of the result.
stats ==
  IF run.mode = "POST" THEN run.outcome.value.body.stats ELSE run.outcome.value.stats

\* The record map of the result.
pageData == run.result

\* C13: a record is never overwritten once present: whatever step of the
\* run adds records to the result map (the per-bucket merge of
\* processAllUrls, the synthetic injection of ensureMinimumPageTypes, the
\* sample-blog injection of processSitemap), every key of the map keeps
\* its record.
C13_NeverOverwritten ==
  [][\A k \in 1..Len(run.result) :
       /\ hasKey(run'.result, run.result[k].key)
       /\ get(run'.result, run.result[k].key) = run.result[k].value]_vars

\* The count the stats report for category c; 0 when they report none.
reported(c) == IF c \in DOMAIN stats THEN stats[c] ELSE 0

\* The total the stats report: total for the POST handler, all for
\* getPageStats.
reportedTotal == IF run.mode = "POST" THEN stats.total ELSE stats.all

\* C14 as stated: in every result the pipeline returns, the total of the stats
\* equals the number of distinct URL keys of the record map and the sum of
\* the per-category counts, and each record is counted under its own type.
C14_StatsConsistent ==
  returned =>
    /\ reportedTotal = Cardinality({pageData[k].key : k \in 1..Len(pageData)})
    /\ reportedTotal = reported("product") + reported("blog") + reported("category")
                         + reported("static") + reported("others")
    /\ \A c \in Categories : reported(c) = countType(values(pageData), c, 1)

\* The number of records the stats count under category c: the records of
\* type c, except that getPageStats has no count for others and counts the
\* records of type others under static.
counted(c) ==
  IF run.mode = "POST" THEN countType(values(pageData), c, 1)
  ELSE IF c = "others" THEN 0
  ELSE IF c = "static"
    THEN countType(values(pageData), "static", 1)
           + countType(values(pageData), "others", 1)
  ELSE countType(values(pageData), c, 1)

\* C14 as amended: in every result the pipeline returns, the total of the
\* stats (total for the POST handler, all for getPageStats) equals the
\* number of distinct URL keys of the record map and the sum of the
\* per-category counts, and each record is counted exactly once: under its
\* own type, except that getPageStats counts a record of type others under
\* static.
C14_EachRecordCountedOnce ==
  returned =>
    /\ reportedTotal = Cardinality({pageData[k].key : k \in 1..Len(pageData)})
    /\ reportedTotal = reported("product") + reported("blog") + reported("category")
                         + reported("static") + reported("others")
    /\ \A c \in Categories : reported(c) = counted(c)

\* processSitemap has returned a map holding a record of type others, and
\* its stats count that record under static.
C14_Witness ==
  /\ returned /\ run.mode = "processSitemap"
  /\ countType(values(pageData), "others", 1) >= 1
  /\ stats.static > countType(values(pageData), "static", 1)

C16_EmptyDiscoveryIsNoError ==
  (run.pc = "done" /\ ~falsy(run.sitemapUrl) /\ run.site.D = <<>>) =>
    /\ run.outcome.state = "fulfilled"
    /\ run.mode = "POST" =>
         /\ run.outcome.value.status = 200
         /\ run.outcome.value.body.results = <<>>

\* The cap as a count: the integer a number or a string of digits
\* denotes.
capCount(maxUrls) ==
  IF maxUrls.type = "number" THEN maxUrls.num
  ELSE readDigits(maxUrls.str, 1, 0, 0).num

\* The first min(n, |D|) URLs of D.
firstOf(D, n) == IF n >= Len(D) THEN D ELSE SubSeq(D, 1, n)

\* C17: the URL cap truncates the discovery output D before
\* classification: with an integer cap N the handler classifies and
\* processes the first min(N, |D|) URLs of D, with the cap "all" or with
\* no cap it classifies and processes all of D.
C17_CapTruncatesDiscovery ==
  (run.mode = "POST"
     /\ run.pc \in {"processAllUrls", "extractProductUrls", "extractBlogUrls",
                    "extractBlogPostUrls", "bucket", "respond"}) =>
    LET expected ==
          IF run.maxUrls.type = "undefined" \/ run.maxUrls = JsString("all")
            THEN run.site.D
            ELSE firstOf(run.site.D, capCount(run.maxUrls))
    IN  /\ run.input = expected
        /\ run.classified =
             categorizeUrls([k \in 1..Len(expected) |-> JsString(expected[k])]).value

\* C20: whatever the remote server does, a run of the pipeline eventually
\* completes.
C20_RunCompletes == <>(run.pc = "done")

-----------------------------------------------------------------------------
(* Further claims about sitemap discovery *)

\* The location call c was made for: the entry of the site for the
\* top-level call, the child location its parent listed otherwise.
listed(c) ==
  IF c = top THEN world.entry
  ELSE calls[SubSeq(c, 1, Len(c) - 1)].sitemapUrls[c[Len(c)]]

\* The candidates of the contract for an entry URL, in probing order: the
\* location robots.txt declares, when it declares one, then the entry
\* itself and the five well-known locations under it.
candidatesFor(entry) ==
  LET base == IF Len(entry) > 0 /\ charAt(entry, Len(entry)) = "/"
                THEN SubSeq(entry, 1, Len(entry) - 1) ELSE entry
      declared == IF URLParses(entry) /\ world.robots.type = "lines"
                    THEN sitemapMatch(world.robots.lines) ELSE <<>>
  IN  declared \o <<entry, base \o "/sitemap.xml", base \o "/sitemap_index.xml",
                    base \o "/sitemap/sitemap.xml", base \o "/wp-sitemap.xml",
                    base \o "/page-sitemap.xml">>

\* C24: for a location without "sitemap" in it the candidates are probed
\* with HEAD strictly in order, the location robots.txt declares first
\* when there is one, then the location itself, /sitemap.xml,
\* /sitemap_index.xml, /sitemap/sitemap.xml, /wp-sitemap.xml and
\* /page-sitemap.xml; the first candidate that answers 200 is the one
\* fetched and no candidate after it is probed; a failing probe does not
\* end discovery: when no candidate answers, the location itself is
\* fetched.  A location with "sitemap" in it is fetched without any probe.
C24_ProbeOrder ==
  \A c \in DOMAIN calls :
    calls[c].fetched =>
      LET entry      == listed(c)
          candidates == candidatesFor(entry)
          answering  == {k \in 1..Len(candidates) : candidates[k] \in world.heads}
      IN  IF includes(toLowerCase(entry), "sitemap")
            THEN calls[c].probes = <<>> /\ calls[c].sitemapUrl = entry
          ELSE IF answering = {}
            THEN calls[c].probes = candidates /\ calls[c].sitemapUrl = entry
          ELSE LET first == CHOOSE k \in answering : \A j \in answering : k <= j
               IN  /\ calls[c].probes = SubSeq(candidates, 1, first)
                   /\ calls[c].sitemapUrl = candidates[first]

\* The declared location did not answer, the entry did not either, and
\* /sitemap.xml under the entry was found and fetched; the well-known
\* location after it, which answers too, was not probed.
C24_Witness ==
  /\ world.entry = "https://x/shop/"
  /\ calls[top].pc = "done"
  /\ calls[top].probes = <<"https://x/old.xml", "https://x/shop/", "https://x/shop/sitemap.xml">>
  /\ calls[top].result = Fulfilled(<<LeafPage(1)>>)

\* C28: the document a recursive call fetches and parses for a child
\* location listed by a sitemap index is the one at the listed location,
\* whatever the location string (also one without "sitemap" in it) and
\* whatever robots.txt holds.
C28_ChildLocationFetched ==
  \A c \in DOMAIN calls :
    (c # top /\ calls[c].fetched) => calls[c].sitemapUrl = listed(c)

-----------------------------------------------------------------------------
(* Further claims about the classifier *)

\* C29: every URL whose path begins with /blog/ is classified by
\* categorizeUrl as blog or category, never as product, static or others.
C29_BlogPathsAreBlogOrCategory ==
  (/\ url.type = "string" /\ URLParses(url.str)
   /\ startsWith(URLpathname(url.str), "/blog/")
   /\ category.state # "pending")
    => (category.state = "fulfilled" /\ category.value \in {"blog", "category"})

-----------------------------------------------------------------------------
(* Further claims about page extraction *)

\* The markers of the three typed branches as the contract names them: URL
\* substrings and a semantic element of the document.
blogMarked(u, document) ==
  \/ someIncludes(<<"/blog/", "/icerik/", "/news/", "/article/", "/post/">>, toLowerCase(u))
  \/ matches(document, "article, .post, .blog-post")

productMarked(u, document) ==
  \/ someIncludes(<<"/product/", "/urun/">>, toLowerCase(u))
  \/ matches(document, ".product-detail, .product, [itemtype*=\"Product\"]")

categoryMarked(u, document) ==
  \/ someIncludes(<<"/category/", "/kategori/", "/cat/", "/collections/",
                    "/product-category/">>, toLowerCase(u))
  \/ matches(document, ".category-description, .category-header, .products-category")

\* C22: on a successful fetch extractPageData assigns exactly one of blog,
\* product, category and static as the type of the record, the first in
\* the order blog, product, category, static whose URL or document marker
\* is present; a URL that has a category marker only, such as a path with
\* /kategori/ and no blog or product marker, is typed category.
C22_BranchOrder ==
  (page.pc = "done" /\ fetchedPage) =>
    LET document == page.last.data
    IN  record.type =
          IF blogMarked(page.url, document) THEN "blog"
          ELSE IF productMarked(page.url, document) THEN "product"
          ELSE IF categoryMarked(page.url, document) THEN "category"
          ELSE "static"

\* C23: the description of a blog page follows the fallback chain: the
\* value of the first description selector that yields one; if none does,
\* the first two content paragraphs, truncated to 160 characters; if there
\* are no such paragraphs either, a description made from the title.
C23_DescriptionChain ==
  (page.pc = "done" /\ fetchedPage /\ record.type = "blog") =>
    LET document   == page.last.data
        selected   == describedBy(document, 1)
        paragraphs == fromParagraphs(document, 1)
    IN  record.description =
          IF selected # "" THEN selected
          ELSE IF paragraphs # "" THEN paragraphs
          ELSE record.title \o ": Blog post on this topic."

-----------------------------------------------------------------------------
(* Further claims about a run of the pipeline *)

\* C26: the sample blog step of processSitemap, which follows extraction
\* and the synthetic injection, adds exactly one record, of type blog, if
\* and only if the record map holds no record of type blog at that point;
\* otherwise it leaves the map as it is.
C26_SampleBlogIffNoBlog ==
  [][run.pc = "sampleBlog" =>
       IF countType(values(run.result), "blog", 1) = 0
         THEN /\ Len(run'.result) = Len(run.result) + 1
              /\ SubSeq(run'.result, 1, Len(run.result)) = run.result
              /\ run'.result[Len(run'.result)].value.type = "blog"
         ELSE run'.result = run.result]_vars

\* The sample blog step has run on a map that holds blog records, the
\* three synthetic posts among them, and the map holds no sample post.
C26_Witness ==
  /\ run.mode = "processSitemap" /\ run.pc = "getPageStats"
  /\ countType(values(run.result), "blog", 1) >= 3
  /\ ~hasKey(run.result, "https://x/blog/sample-post")

\* The run has processed the three URLs of the index.
indexProcessed ==
  /\ returned
  /\ run.site.D = IndexUrls
  /\ Len(run.input) >= 3 /\ SubSeq(run.input, 1, 3) = IndexUrls

C27_TypeIsClassification ==
  (run.pc \in {"respond", "ensureMinimumPageTypes"}) =>
    \A k \in 1..Len(run.input) :
      hasKey(run.result, run.input[k]) =>
        get(run.result, run.input[k]).type = categorizeUrl(JsString(run.input[k])).value

-----------------------------------------------------------------------------
(* Specification of the coverage step: one call of ensureMinimumPageTypes
   on a base URL and a record map of up to MaxRecords records drawn from a
   pool: records of every type, at URLs of their own and at the URLs of the
   synthetic pages, on English and on Turkish paths. *)

MaxRecords == 3

Extracted(u, type) == [key |-> u, value |-> [url |-> u, title |-> "t", type |-> type]]

RecordPool ==
  {Extracted("https://x/about-us", "category"),
   Extracted("https://x/blog/industry-news", "category"),
   Extracted("https://x/category/new-arrivals", "product"),
   Extracted("https://x/category/best-sellers", "category"),
   Extracted("https://x/c/1", "category"),
   Extracted("https://x/c/2", "category"),
   Extracted("https://x/c/3", "category"),
   Extracted("https://x/blog", "blog"),
   Extracted("https://x/kategori/a", "category"),
   Extracted("https://x/other", "others")}

RECURSIVE MapsUpTo(_)
MapsUpTo(n) ==
  IF n = 0 THEN {<<>>}
  ELSE LET shorter == MapsUpTo(n - 1)
       IN  shorter \cup {Append(m, e) : m \in shorter, e \in RecordPool}

InputMaps ==
  {m \in MapsUpTo(MaxRecords) :
     \A a, b \in 1..Len(m) : m[a].key = m[b].key => a = b}

BaseUrls == {"https://x", "https://x//", ""}

InitEnsure ==
  /\ \E baseUrl \in BaseUrls, processedData \in InputMaps :
       run = [mode |-> "ensureMinimumPageTypes", pc |-> "call", baseUrl |-> baseUrl,
              processedData |-> processedData, result |-> <<>>]
  /\ idleCls /\ idleBatch /\ idleHttp /\ idleDisc /\ idlePage

NextEnsure == CallEnsureMinimumPageTypes

SpecEnsure == InitEnsure /\ [][NextEnsure]_vars

\* C30: for every input map and base URL the map ensureMinimumPageTypes
\* returns holds at least 6 records of type static, at least 3 of type
\* blog and at least 3 of type category, and the input map is as it was
\* before the call; so the map handed to the sample blog step has a blog
\* record.
C30_MinimumPageTypes ==
  [][run.pc = "call" =>
       /\ countType(values(run'.result), "static", 1) >= 6
       /\ countType(values(run'.result), "blog", 1) >= 3
       /\ countType(values(run'.result), "category", 1) >= 3
       /\ run'.processedData = run.processedData
       /\ sampleBlog(run.baseUrl, run'.result) = run'.result]_vars

\* The call returned for a map that held three category records, one of
\* them under the URL of a synthetic blog post: that record was replaced
\* by the blog post and the synthetic categories were added.
C30_Witness ==
  /\ run.pc = "returned"
  /\ Len(run.processedData) = 3
  /\ \A k \in 1..3 : run.processedData[k].value.type = "category"
  /\ hasKey(run.processedData, "https://x/blog/industry-news")
  /\ get(run.result, "https://x/blog/industry-news").type = "blog"
  /\ hasKey(run.result, "https://x/category/sale-items")

-----------------------------------------------------------------------------
(* Specification of the merge: the bucket loop of processAllUrls with
   processInBatches running the handlers of each bucket, whose promises
   settle in any order and either way.  The category and the blog bucket
   hold up to MaxBucket URLs, one URL sitting in both; or the product
   bucket holds more URLs than one batch takes. *)

MaxBucket == 2

BucketLists(S) == {l \in ListsUpTo(S, MaxBucket) : \A a, b \in 1..Len(l) : l[a] = l[b] => a = b}

ManyProducts == [k \in 1..(maxConcurrent + 1) |-> "https://x/urun/" \o ToString(k)]

BucketInputs ==
  {[emptyBuckets EXCEPT !.product = <<"https://x/urun/1">>,
                        !.category = categoryUrls,
                        !.blog = blogUrls] :
     categoryUrls \in BucketLists({"https://x/kategori/a", "https://x/blog/kategori/b",
                                   "https://x/category/c"}),
     blogUrls \in BucketLists({"https://x/blog/kategori/b", "https://x/blog/icerik/p",
                               "https://x/blog/icerik/r"})}
    \cup {[emptyBuckets EXCEPT !.product = ManyProducts]}

InitMerge ==
  /\ \E categorizedUrls \in BucketInputs :
       run = [mode |-> "processAllUrls", pc |-> "bucket", k |-> 1,
              categorizedUrls |-> categorizedUrls, result |-> <<>>]
  /\ idleBatch /\ idleCls /\ idleHttp /\ idleDisc /\ idlePage

NextMerge ==
  \/ StartBucket
  \/ StartBatch
  \/ \E k \in DOMAIN handler : HandlerSettles(k)
  \/ BatchSettles
  \/ DelayElapses
  \/ ReturnResults
  \/ MergeBucket

SpecMerge == InitMerge /\ [][NextMerge]_vars

\* C25: the result map of processAllUrls is written only by the merge
\* steps that follow a batch run: no write to the map happens while a
\* handler invocation is in flight or before processInBatches has
\* returned.
C25_SequentialMerge ==
  [][run'.result # run.result =>
       /\ inFlight = {}
       /\ pcBatch = "returned"
       /\ \A k \in DOMAIN handler : settled(k)]_vars

\* The category bucket of two URLs has been merged: one of its handlers
\* failed, the record of the other is in the map, and the handlers of the
\* blog bucket are in flight without any write.
C25_Witness ==
  /\ run.pc = "processInBatches" /\ run.k = 3
  /\ hasKey(run.result, "https://x/kategori/a")
  /\ ~hasKey(run.result, "https://x/blog/kategori/b")
  /\ Len(items) = 2
  /\ Cardinality(inFlight) = 2

====
